---- MODULE Spec2Model ----
(***************************************************************************)
(* Verification model of openclaw-plugin-stability: the sustained-entropy  *)
(* tracker (src/lib/entropy.js, class Entropy), the tool-loop detector     *)
(* (src/lib/entropy.js, class LoopDetection) and the growth-vector ranker  *)
(* (src/lib/vectorStore.js, class VectorStore).                            *)
(*                                                                         *)
(* Units.  Clock values are seconds: Date.now() is read at whole seconds,  *)
(* and every duration of the source, given there in milliseconds, is a     *)
(* whole number of seconds.  Entropy scores are hundredths (0.8 is 80).    *)
(* Relevance scores are multiples of 1/ScoreOne, a unit in which every     *)
(* quotient the ranker forms from the modelled inputs is an integer, so    *)
(* the arithmetic is the exact rational arithmetic of the source.          *)
(***************************************************************************)
EXTENDS Integers, Sequences, FiniteSets, TLC

VARIABLES
    now,                 \* Date.now()
    \* ---- Entropy (sustained tracking) ----
    criticalThreshold,   \* this.config.criticalThreshold || 1.0, in hundredths
    sustainedTurns,      \* this.sustainedTurns
    sustainedStartTime,  \* this.sustainedStartTime (NULL for null)
    sustainedResult,     \* value returned by the last trackSustainedEntropy
    trackArg,            \* history: score passed to the last trackSustainedEntropy
    runCalls,            \* history: calls of the current uninterrupted elevated run
    runFirstCall,        \* history: clock time of the first call of that run
    prevRunCalls,        \* history: runCalls before the last call
    prevRunSpan,         \* history: time from the run's first call to the last call
    \* ---- LoopDetection ----
    toolHistory,         \* this.toolHistory: sequence of [tool, hash, timestamp]
    fileReadCounts,      \* this.fileReadCounts: path -> count (0 for an absent key)
    loopResult,          \* value returned by the last recordAndCheck
    prevLoopResult,      \* history: value returned by the recordAndCheck before it
    callLog,             \* history: every call since the last reset, in call order
    loopOp,              \* history: "new", "call" or "reset", the last operation
    \* ---- VectorStore ----
    gvFile,              \* growth-vectors.json: [exists, content]
    cache,               \* this._cache: [set, data] (set is FALSE for null)
    cacheChecksum,       \* this._cacheChecksum (<<>> for null)
    cacheTimestamp,      \* this._cacheTimestamp
    feedback,            \* growth-vector-feedback.json: vector id -> record
    rankResult,          \* value returned by the last getRelevantVectors
    rankScored,          \* history: the vectors of rankResult with their scores
    rankPath,            \* history: "none", "empty", "priority" or "scored"
    rankArgs,            \* history: arguments, clock time and loaded vectors of that call
    feedbackLog,         \* history: vector id -> every entropy delta recorded for it
    storeOp,             \* history: the last operation on the store, the file before
                         \* it and the value it returned
    \* ---- Detectors ----
    recentMetaCounts,    \* this.recentMetaCounts
    metaBonus,           \* value returned by the last isRecursiveMetaDiscussion
    metaLog,             \* history: the meta-concept count of every call, in call order
    \* ---- Hooks (index.js) ----
    agentStates,         \* agentStates: agent id -> the AgentState and its files
    endCall,             \* agent id -> position of the agent's agent_end handler
    turn,                \* history: agent id -> number and user message of its last turn
    capturedAt,          \* history: agent id -> turn whose start captured the pending batch
    feedbackTrace,       \* history: every feedback entry saved by a closure
    lastHook,            \* history: the last hook step, its agent and how it ended
    \* ---- Entropy (score and observation log) ----
    recentHistory,       \* this.recentHistory: sequence of [timestamp, entropy, metaConceptCount]
    lastScore,           \* this.lastScore, in hundredths
    logFile,             \* entropy-monitor.jsonl: sequence of [timestamp, score]
    scoreCall,           \* history: arguments, ring buffer, time and result of the last scoring
    prevScoreCall,       \* history: scoreCall of the scoring before it
    observed,            \* history: every observation logged, in logging order
    logOp,               \* history: the log file and ring buffer before the last logObservation
    \* ---- Governance and the investigation service ----
    rateLimiter,         \* governance.rateLimiter: limits, counts and reset times
    queuedIntent,        \* state.queuedIntent (NoIntent for null)
    recentTopics,        \* governance.recentTopics: set of [key, timestamp]
    pendingNotifications, \* governance.pendingNotifications
    batchTimer,          \* governance.batchTimer: [set, deadline]
    delivered,           \* the batches handed to deliverFn, in delivery order
    quietCall,           \* history: configuration, local time and result of the last isQuietHours
    govOp,               \* history: the last governance operation, its argument, result
                         \* and the rate limiter before it
    consumedAt,          \* history: clock time of every investigation consumed
    recordedAt,          \* history: normalized topic -> clock time it was last recorded
    queuedLog,           \* history: every notification queued, in call order
    \* ---- Identity, Heartbeat and the memory API ----
    activeTensions,      \* identity._activeTensions: sequence of [id, type, detectedAt, status]
    memoryStore,         \* the entries handed to memoryApi.store, in call order
    identityOp,          \* history: the last processTurn, its arguments and the list at each stage
    heartbeatOp,         \* history: the last logDecision, its arguments and how it ended
    steps                \* history: number of steps taken (bounds the exploration)

NULL == -1

entropyVars == <<criticalThreshold, sustainedTurns, sustainedStartTime, sustainedResult,
                 trackArg, runCalls, runFirstCall, prevRunCalls, prevRunSpan>>

loopVars == <<toolHistory, fileReadCounts, loopResult, prevLoopResult, callLog, loopOp>>

storeVars == <<gvFile, cache, cacheChecksum, cacheTimestamp, feedback,
               rankResult, rankScored, rankPath, rankArgs, storeOp, feedbackLog>>

detectorVars == <<recentMetaCounts, metaBonus, metaLog>>

hookVars == <<agentStates, endCall, turn, capturedAt, feedbackTrace, lastHook>>

scorerVars == <<recentHistory, lastScore, logFile, scoreCall, prevScoreCall, observed, logOp>>

governanceVars == <<rateLimiter, queuedIntent, recentTopics, pendingNotifications, batchTimer,
                    delivered, quietCall, govOp, consumedAt, recordedAt, queuedLog>>

identityVars == <<activeTensions, memoryStore, identityOp, heartbeatOp>>

vars == <<now, steps, entropyVars, loopVars, storeVars, detectorVars, hookVars, scorerVars,
          governanceVars, identityVars>>

notIdentityVars == <<entropyVars, loopVars, storeVars, detectorVars, hookVars, scorerVars,
                     governanceVars>>

notGovernanceVars == <<entropyVars, loopVars, storeVars, detectorVars, hookVars, scorerVars,
                       identityVars>>

notEntropyVars == <<loopVars, storeVars, detectorVars, hookVars, scorerVars, governanceVars, identityVars>>

notLoopVars == <<entropyVars, storeVars, detectorVars, hookVars, scorerVars, governanceVars, identityVars>>

notStoreVars == <<entropyVars, loopVars, detectorVars, hookVars, scorerVars, governanceVars, identityVars>>

notDetectorVars == <<entropyVars, loopVars, storeVars, hookVars, scorerVars, governanceVars, identityVars>>

notScorerVars == <<entropyVars, loopVars, storeVars, detectorVars, hookVars, governanceVars, identityVars>>

\* ------------------------------------------------------------------------
\* Bounds of the exploration
\* ------------------------------------------------------------------------
MaxSteps == 7

\* Scores fed to the tracker (hundredths): at and just above the floor for each
\* modelled critical threshold.
Scores == {80, 81, 120, 121}

CriticalThresholds == {100, 150}

\* Clock advances between calls: 1 s, 15 min, and 1 s short of 45 min.
AdvanceSteps == {1, 900, 2699}

\* ------------------------------------------------------------------------
\* Entropy.trackSustainedEntropy
\* ------------------------------------------------------------------------
SustainedMinutes == 45

SustainedLimit == SustainedMinutes * 60

\* Math.round of a non-negative quotient a / b
Round(a, b) == (2 * a + b) \div (2 * b)

AboveSustainedFloorGE(score) == 10 * score >= 8 * criticalThreshold

\* entropyScore > threshold * 0.8
AboveSustainedFloor(score) == 10 * score > 8 * criticalThreshold

SustainedReachedGT(elapsed) == elapsed > SustainedLimit

\* elapsed >= sustainedLimit
SustainedReached(elapsed) == elapsed >= SustainedLimit

\* The clock is read at line 201 (first call of a run only) and again at line
\* 203; `gap` is the time that passes between the two reads.
TrackSustainedEntropy(score, gap) ==
    /\ steps < MaxSteps
    /\ steps' = steps + 1
    /\ trackArg' = score
    /\ prevRunCalls' = runCalls
    /\ prevRunSpan' = IF runCalls = 0 THEN 0 ELSE now - runFirstCall
    /\ UNCHANGED <<criticalThreshold, notEntropyVars>>
    /\ IF AboveSustainedFloor(score)
       THEN LET turns == sustainedTurns + 1
                start == IF turns = 1 THEN now ELSE sustainedStartTime
                read  == IF turns = 1 THEN now + gap ELSE now
                elapsed == read - start
            IN  /\ (turns # 1 => gap = 0)
                /\ sustainedTurns' = turns
                /\ sustainedStartTime' = start
                /\ now' = read
                /\ sustainedResult' = [sustained |-> SustainedReached(elapsed),
                                       turns |-> turns,
                                       minutes |-> Round(elapsed, 60)]
       ELSE /\ gap = 0
            /\ sustainedTurns' = 0
            /\ sustainedStartTime' = NULL
            /\ now' = now
            /\ sustainedResult' = [sustained |-> FALSE, turns |-> 0, minutes |-> 0]
    \* history variables, kept from the inputs alone
    /\ IF 10 * score > 8 * criticalThreshold
       THEN /\ runCalls' = runCalls + 1
            /\ runFirstCall' = IF runCalls = 0 THEN now ELSE runFirstCall
       ELSE /\ runCalls' = 0
            /\ runFirstCall' = NULL

\* Time passes between two calls.
AdvanceClock(d) ==
    /\ steps < MaxSteps
    /\ steps' = steps + 1
    /\ now' = now + d
    /\ UNCHANGED <<entropyVars, notEntropyVars>>

InitEntropy ==
    /\ criticalThreshold \in CriticalThresholds
    /\ sustainedTurns = 0
    /\ sustainedStartTime = NULL
    /\ sustainedResult = [sustained |-> FALSE, turns |-> 0, minutes |-> 0]
    /\ trackArg = NULL
    /\ runCalls = 0
    /\ runFirstCall = NULL
    /\ prevRunCalls = 0
    /\ prevRunSpan = 0

\* ------------------------------------------------------------------------
\* LoopDetection
\* ------------------------------------------------------------------------
\* Strings whose characters matter (tool outputs) are sequences of UTF-16 code
\* units, the values charCodeAt returns.
OutEmpty == <<>>

\* "az"
OutAZ == <<97, 122>>

\* "bY", which has the DJB2 hash of "az"; it occurs in a replayed session only
OutBY == <<98, 89>>

\* Outputs of the calls the exploration makes
Outputs == {OutEmpty, OutAZ}

\* "Read" is a read tool, "search" is not, "cat" is a read tool the
\* configuration exempts.
Tools == {"Read", "search", "cat"}

\* config.loopDetection.exemptTools
ExemptTools == {"cat"}

Paths == {"/a", "/b"}

\* Tool parameters; "" stands for an absent (or empty, equally falsy) field.
NoParams == [file_path |-> "", path |-> "", filePath |-> ""]

ParamSets == {NoParams,
              [file_path |-> "/a", path |-> "/b", filePath |-> ""],
              [file_path |-> "", path |-> "/b", filePath |-> "/a"]}

ConsecutiveThreshold == 5

RereadThreshold == 3

HistoryCap == 20

\* x wrapped to a signed 16-bit value
Wrap16(x) == ((x + 32768) % 65536) - 32768

\* One round of djb2Hash: ((hash << 5) + hash) + c, then `hash & hash`, which
\* wraps the sum to a signed 32-bit integer.  Computed on 16-bit halves so that
\* no intermediate value exceeds 32 bits.
Djb2Round(hash, c) ==
    LET lo    == (hash % 65536) * 33 + c
        hi    == (hash \div 65536) * 33 + (lo \div 65536)
    IN  Wrap16(hi) * 65536 + (lo % 65536)

RECURSIVE Djb2From(_, _, _)
Djb2From(hash, str, i) ==
    IF i > Len(str) THEN hash ELSE Djb2From(Djb2Round(hash, str[i]), str, i + 1)

Djb2Hash(str) == Djb2From(5381, str, 1)

ReadTools == {"read_file", "cat", "head", "tail", "Read", "read"}

IsReadTool(toolName) == toolName \in ReadTools

IsExemptNever(toolName) == FALSE

\* this.exemptTools.has(toolName)
IsExempt(toolName) == toolName \in ExemptTools

\* params.file_path || params.path || params.filePath
ResolvePath(params) ==
    IF params.file_path # "" THEN params.file_path
    ELSE IF params.path # "" THEN params.path
    ELSE params.filePath

\* array.slice(-n)
LastN(seq, n) == IF Len(seq) <= n THEN seq ELSE SubSeq(seq, Len(seq) - n + 1, Len(seq))

PushBoundedDropNewest(history, record) ==
    LET pushed == Append(history, record)
    IN  IF Len(pushed) > HistoryCap THEN SubSeq(pushed, 1, HistoryCap) ELSE pushed

\* toolHistory.push(record); if (length > 20) toolHistory.shift()
PushBounded(history, record) ==
    LET pushed == Append(history, record)
    IN  IF Len(pushed) > HistoryCap THEN Tail(pushed) ELSE pushed

CountReadUnlessExempt(counts, toolName, filePath) ==
    IF filePath # "" /\ IsReadTool(toolName) /\ ~IsExempt(toolName)
    THEN [counts EXCEPT ![filePath] = @ + 1]
    ELSE counts

\* if (filePath && this._isReadTool(toolName)) fileReadCounts[filePath]++
CountRead(counts, toolName, filePath) ==
    IF filePath # "" /\ IsReadTool(toolName)
    THEN [counts EXCEPT ![filePath] = @ + 1]
    ELSE counts

NoLoop == [loopDetected |-> FALSE, type |-> "null"]

Loop(type) == [loopDetected |-> TRUE, type |-> type]

CheckConsecutiveOneMore(history) ==
    LET recent == LastN(history, ConsecutiveThreshold + 1)
    IN  IF Len(recent) < ConsecutiveThreshold + 1 THEN NoLoop
        ELSE IF \A i \in 1..Len(recent) : recent[i].tool = recent[1].tool
             THEN Loop("consecutive_tool")
             ELSE NoLoop

\* _checkConsecutive; NoLoop stands for the null it returns
CheckConsecutive(history) ==
    LET recent == LastN(history, ConsecutiveThreshold)
    IN  IF Len(recent) < ConsecutiveThreshold THEN NoLoop
        ELSE IF \A i \in 1..Len(recent) : recent[i].tool = recent[1].tool
             THEN Loop("consecutive_tool")
             ELSE NoLoop

CheckFileRereadStrict(counts, filePath) ==
    IF filePath = "" THEN NoLoop
    ELSE IF counts[filePath] > RereadThreshold THEN Loop("file_reread")
    ELSE NoLoop

\* _checkFileReread
CheckFileReread(counts, filePath) ==
    IF filePath = "" THEN NoLoop
    ELSE IF counts[filePath] >= RereadThreshold THEN Loop("file_reread")
    ELSE NoLoop

\* _checkOutputRepetition
CheckOutputRepetition(history) ==
    LET recent == LastN(history, 3)
    IN  IF Len(recent) < 3 THEN NoLoop
        ELSE IF (\A i \in 1..3 : recent[i].hash = recent[1].hash) /\ recent[1].hash # 0
             THEN Loop("output_repetition")
             ELSE NoLoop

\* recordAndCheck as a function of the detector's state and the call: the new
\* toolHistory and fileReadCounts and the value returned.
RecordAndCheckResult(history, counts, toolName, output, params, time) ==
    LET hash     == Djb2Hash(output)
        pushed   == PushBounded(history,
                        [tool |-> toolName, hash |-> hash, timestamp |-> time])
        filePath == ResolvePath(params)
        counted  == CountRead(counts, toolName, filePath)
        consecutive  == CheckConsecutive(pushed)
        reread       == CheckFileReread(counted, filePath)
        outputRepeat == CheckOutputRepetition(pushed)
        result == IF IsExempt(toolName) THEN NoLoop
                  ELSE IF consecutive.loopDetected THEN consecutive
                  ELSE IF reread.loopDetected THEN reread
                  ELSE IF outputRepeat.loopDetected THEN outputRepeat
                  ELSE NoLoop
    IN  [toolHistory |-> pushed, fileReadCounts |-> counted, result |-> result]

\* A call as the history variables record it.
Call(toolName, output, params, time) ==
    [tool |-> toolName, output |-> output, params |-> params, time |-> time]

MaxLoopCalls == 3

\* recordAndCheck(toolName, output, params); the clock moves on by one unit
\* with every call.
RecordAndCheck(toolName, output, params) ==
    LET r == RecordAndCheckResult(toolHistory, fileReadCounts, toolName, output, params, now)
    IN  /\ steps < MaxLoopCalls
        /\ steps' = steps + 1
        /\ toolHistory' = r.toolHistory
        /\ fileReadCounts' = r.fileReadCounts
        /\ loopResult' = r.result
        /\ prevLoopResult' = loopResult
        /\ callLog' = Append(callLog, Call(toolName, output, params, now))
        /\ loopOp' = "call"
        /\ now' = now + 1
        /\ UNCHANGED notLoopVars

\* reset()
Reset ==
    /\ steps < MaxLoopCalls
    /\ steps' = steps + 1
    /\ toolHistory' = <<>>
    /\ fileReadCounts' = [p \in Paths |-> 0]
    /\ callLog' = <<>>
    /\ loopOp' = "reset"
    /\ UNCHANGED <<now, loopResult, prevLoopResult, notLoopVars>>

\* The detector as its constructor leaves it.
InitLoop ==
    /\ toolHistory = <<>>
    /\ fileReadCounts = [p \in Paths |-> 0]
    /\ loopResult = NoLoop
    /\ prevLoopResult = NoLoop
    /\ callLog = <<>>
    /\ loopOp = "new"

\* Sessions already under way when the exploration starts: each is the state
\* that recordAndCheck itself produces for a script of calls on a new detector.
ScriptReads ==
    <<Call("Read", OutAZ, [file_path |-> "/a", path |-> "", filePath |-> ""], 1),
      Call("Read", OutEmpty, [file_path |-> "", path |-> "/b", filePath |-> ""], 2),
      Call("Read", OutBY, [file_path |-> "/a", path |-> "", filePath |-> ""], 3),
      Call("Read", OutEmpty, [file_path |-> "", path |-> "/b", filePath |-> ""], 4)>>

ScriptLong ==
    [i \in 1..19 |-> Call(IF i % 2 = 1 THEN "search" ELSE "cat",
                          IF i % 3 = 0 THEN OutAZ ELSE OutEmpty, NoParams, i)]

Scripts == {<<>>, ScriptReads, ScriptLong}

RECURSIVE Replay(_, _, _)
Replay(script, i, state) ==
    IF i > Len(script) THEN state
    ELSE LET c == script[i]
             r == RecordAndCheckResult(state.toolHistory, state.fileReadCounts,
                                       c.tool, c.output, c.params, c.time)
             next == [toolHistory |-> r.toolHistory,
                      fileReadCounts |-> r.fileReadCounts,
                      result |-> r.result,
                      prev |-> state.result]
         IN  \* the test is always true: it has the state computed before the
             \* next call is replayed
             IF Len(next.toolHistory) > 0 THEN Replay(script, i + 1, next) ELSE state

InitLoopSession ==
    \E script \in Scripts :
        LET s == Replay(script, 1, [toolHistory |-> <<>>,
                                    fileReadCounts |-> [p \in Paths |-> 0],
                                    result |-> NoLoop, prev |-> NoLoop])
        IN  /\ toolHistory = s.toolHistory
            /\ fileReadCounts = s.fileReadCounts
            /\ loopResult = s.result
            /\ prevLoopResult = s.prev
            /\ callLog = script
            /\ loopOp = IF script = <<>> THEN "new" ELSE "call"
            /\ now = Len(script) + 1

\* ------------------------------------------------------------------------
\* VectorStore: text helpers
\* ------------------------------------------------------------------------
\* Texts (messages, hypotheses, descriptions) are sequences of UTF-16 code units.

\* String.prototype.toLowerCase, on the letters A-Z
ToLowerCase(text) ==
    [i \in 1..Len(text) |-> IF text[i] >= 65 /\ text[i] <= 90 THEN text[i] + 32 ELSE text[i]]

\* \s of the regular expressions: space, tab, line feed, carriage return
Whitespace == {32, 9, 10, 13}

\* userMessage.trim().length === 0
IsBlank(text) == \A i \in 1..Len(text) : text[i] \in Whitespace

\* The non-empty pieces of text.split(separators+), in order.  split also yields
\* an empty piece at a leading or trailing separator; every caller filters the
\* pieces by a minimum length, which drops it.
Pieces(text, separators) ==
    LET starts == {i \in 1..Len(text) :
                      text[i] \notin separators /\ (i = 1 \/ text[i - 1] \in separators)}
        nth(k) == CHOOSE i \in starts : Cardinality({j \in starts : j < i}) = k - 1
        endOf(i) == CHOOSE j \in i..Len(text) :
                      /\ \A k \in i..j : text[k] \notin separators
                      /\ (j = Len(text) \/ text[j + 1] \in separators)
    IN  [k \in 1..Cardinality(starts) |-> SubSeq(text, nth(k), endOf(nth(k)))]

\* target.includes(pattern)
Includes(target, pattern) ==
    \E i \in 0..(Len(target) - Len(pattern)) : SubSeq(target, i + 1, i + Len(pattern)) = pattern

\* ? ! . , ; : ' " ( ) [ ] { } < >
Punctuation == {63, 33, 46, 44, 59, 58, 39, 34, 40, 41, 91, 93, 123, 125, 60, 62}

\* whitespace, em dash, en dash, hyphen, slash
WordSeparators == Whitespace \cup {8212, 8211, 45, 47}

IsPunctuation(c) == c \in Punctuation

NotPunctuation(c) == ~IsPunctuation(c)

\* this._stopWords
StopWords ==
    {<<116, 104, 101>>,
     <<97, 110, 100>>,
     <<102, 111, 114>>,
     <<116, 104, 97, 116>>,
     <<116, 104, 105, 115>>,
     <<119, 105, 116, 104>>,
     <<102, 114, 111, 109>>,
     <<104, 97, 118, 101>>,
     <<119, 97, 115>>,
     <<97, 114, 101>>,
     <<98, 101, 101, 110>>,
     <<119, 101, 114, 101>>,
     <<98, 101, 105, 110, 103>>,
     <<105, 110, 116, 111>>,
     <<116, 104, 97, 110>>,
     <<119, 104, 101, 110>>,
     <<119, 104, 97, 116>>,
     <<119, 104, 105, 99, 104>>,
     <<97, 98, 111, 117, 116>>,
     <<116, 104, 101, 105, 114>>,
     <<116, 104, 101, 109>>,
     <<116, 104, 101, 121>>,
     <<119, 105, 108, 108>>,
     <<119, 111, 117, 108, 100>>,
     <<99, 111, 117, 108, 100>>,
     <<115, 104, 111, 117, 108, 100>>,
     <<121, 111, 117, 114>>,
     <<106, 117, 115, 116>>,
     <<97, 108, 115, 111>>,
     <<115, 111, 109, 101>>,
     <<98, 101, 102, 111, 114, 101>>,
     <<97, 102, 116, 101, 114>>,
     <<100, 117, 114, 105, 110, 103>>,
     <<97, 108, 114, 101, 97, 100, 121>>,
     <<97, 99, 116, 117, 97, 108, 108, 121>>,
     <<119, 104, 101, 114, 101>>,
     <<100, 111, 101, 115>>,
     <<100, 111, 105, 110, 103>>,
     <<100, 111, 110, 101>>,
     <<109, 97, 107, 101>>,
     <<109, 97, 100, 101>>,
     <<109, 111, 114, 101>>,
     <<109, 111, 115, 116>>,
     <<118, 101, 114, 121>>,
     <<111, 110, 108, 121>>,
     <<111, 116, 104, 101, 114>>,
     <<101, 97, 99, 104>>,
     <<116, 104, 101, 110>>,
     <<100, 105, 100, 110>>,
     <<100, 111, 110>>}

\* _extractWords: the set of words longer than 3 characters that are no stop words
ExtractWords(text) ==
    LET words == Pieces(SelectSeq(text, NotPunctuation), WordSeparators)
    IN  {words[i] : i \in {j \in 1..Len(words) : Len(words[j]) > 3 /\ words[j] \notin StopWords}}

\* _calculatePhraseMatches, as the pair <<matches, possible>> its loop ends with
PhraseCounts(sourceText, targetText) ==
    LET all == Pieces(sourceText, Whitespace)
        sourceWords == SelectSeq(all, LAMBDA w : Len(w) > 2)
        n == Len(sourceWords)
        bigram(i) == sourceWords[i] \o <<32>> \o sourceWords[i + 1]
        trigram(i) == bigram(i) \o <<32>> \o sourceWords[i + 2]
        bigramHits == Cardinality({i \in 1..(n - 1) : Includes(targetText, bigram(i))})
        trigramHits == Cardinality({i \in 1..(n - 2) : Includes(targetText, trigram(i))})
        bigrams == IF n >= 2 THEN n - 1 ELSE 0
        trigrams == IF n >= 3 THEN n - 2 ELSE 0
    IN  <<bigramHits + 2 * trigramHits, bigrams + trigrams>>

\* ------------------------------------------------------------------------
\* VectorStore: file, cache and relevance scoring
\* ------------------------------------------------------------------------
\* The relevance score 1.0.  Scores are integers in this unit; 2520 is the least
\* common multiple of 1..10, the denominators the scoring divides by.
ScoreOne == 2520 * 1000

MaxInjected == 2

\* this.relevanceThreshold, 0.65
RelevanceThreshold == (65 * ScoreOne) \div 100

\* this._cacheTtl, 30000 ms
CacheTtl == 30

\* config.weightAdjustmentCap || 0.1
WeightAdjustmentCap == ScoreOne \div 10

Day == 24 * 60 * 60

EmptyFile == [vectors |-> <<>>, candidates |-> <<>>,
              queue |-> [high |-> <<>>, medium |-> <<>>, low |-> <<>>]]

Min(a, b) == IF a < b THEN a ELSE b

Max(a, b) == IF a > b THEN a ELSE b

\* crypto sha256 of the raw file, first 16 hex digits: modelled as injective
\* (equal checksums exactly for equal contents)
Checksum(content) == <<content>>

\* loadFile at clock time `time`: the data returned and the cache fields it
\* leaves.  `file` is [exists, content]; an absent file returns _emptyFile()
\* and leaves the cache alone.
LoadFile(file, c, checksum, timestamp, time) ==
    IF c.set /\ (time - timestamp) < CacheTtl
    THEN [data |-> c.data, cache |-> c, checksum |-> checksum, timestamp |-> timestamp,
          parsed |-> FALSE]
    ELSE IF ~file.exists
    THEN [data |-> EmptyFile, cache |-> c, checksum |-> checksum, timestamp |-> timestamp,
          parsed |-> FALSE]
    ELSE IF Checksum(file.content) = checksum /\ c.set
    THEN [data |-> c.data, cache |-> c, checksum |-> checksum, timestamp |-> time,
          parsed |-> FALSE]
    ELSE [data |-> file.content,
          cache |-> [set |-> TRUE, data |-> file.content],
          checksum |-> Checksum(file.content),
          timestamp |-> time,
          parsed |-> TRUE]

IsInjectableAny(v) == TRUE

\* loadVectors: validation_status is 'validated' or 'integrated'
IsInjectable(v) == v.validation_status \in {"validated", "integrated"}

\* --- 60% keyword overlap: min(1, 0.7 * baseKeyword + 0.3 * phraseBoost)
KeywordScore(vectorText, msgLower, msgWords) ==
    LET vectorWords == ExtractWords(vectorText)
        intersection == Cardinality(msgWords \cap vectorWords)
        smallerSize == Min(Cardinality(msgWords), Cardinality(vectorWords))
        baseKeyword == (intersection * ScoreOne) \div Max(smallerSize, 1)
        counts == PhraseCounts(vectorText, msgLower)
        matches == counts[1]
        possible == counts[2]
        \* matches / max(possible * 0.3, 1), capped at 1
        phraseBoost == IF possible = 0 THEN 0
                       ELSE IF 3 * possible <= 10 THEN Min(ScoreOne, matches * ScoreOne)
                       ELSE Min(ScoreOne, (matches * ScoreOne * 10) \div (3 * possible))
    IN  Min(ScoreOne, (7 * baseKeyword + 3 * phraseBoost) \div 10)

CorrectionSources == {"user_correction", "factual_accuracy_gap", "pattern_break"}

ReflectionSources == {"elevated_entropy_self_reflection", "elevated_entropy_threshold_breach"}

\* --- 20% entropy source alignment; "" stands for no entropy_source
EntropyBonus(source, entropyScore) ==
    IF source # "" /\ entropyScore > 40
    THEN IF source \in CorrectionSources /\ entropyScore > 40 THEN (15 * ScoreOne) \div 100
         ELSE IF source \in ReflectionSources /\ entropyScore > 70 THEN (20 * ScoreOne) \div 100
         ELSE IF entropyScore > 60 THEN (10 * ScoreOne) \div 100
         ELSE 0
    ELSE 0

\* --- 10% recency: 0.1 * (1 - daysSince / 7) when daysSince < 7.  In score
\* units 0.1 is 252000 and 252000 / (7 days in seconds) is 5/12.
RecencyBonus(detected, time) ==
    IF detected = NULL THEN 0
    ELSE LET age == time - detected
         IN  IF age < 7 * Day THEN ScoreOne \div 10 - (age * 5) \div 12 ELSE 0

\* --- 10% weight bonus: (vector.weight || 0.5) * 0.1, the weight in hundredths
WeightBonus(weight) == (IF weight = 0 THEN 50 ELSE weight) * (ScoreOne \div 1000)

FeedbackAdjustmentUncapped(fb) ==
    IF Len(fb.entries) >= 3 THEN -fb.avgEntropyDelta ELSE 0

\* --- feedback adjustment: needs 3 entries; the negated average delta, capped
FeedbackAdjustment(fb) ==
    IF Len(fb.entries) >= 3
    THEN Max(-WeightAdjustmentCap, Min(WeightAdjustmentCap, -fb.avgEntropyDelta))
    ELSE 0

\* finalScore of _calculateRelevance before the feedback adjustment is added
ScoreBeforeFeedback(vector, msgLower, msgWords, entropyScore, time) ==
    LET vectorText == ToLowerCase(vector.integration_hypothesis \o <<32>> \o vector.description)
    IN  (6 * KeywordScore(vectorText, msgLower, msgWords)) \div 10
            + EntropyBonus(vector.entropy_source, entropyScore)
            + RecencyBonus(vector.detected, time)
            + WeightBonus(vector.weight)

\* _calculateRelevance
CalculateRelevance(vector, msgLower, msgWords, entropyScore, fb, time) ==
    LET finalScore == ScoreBeforeFeedback(vector, msgLower, msgWords, entropyScore, time)
                        + FeedbackAdjustment(fb)
    IN  Min(ScoreOne, Max(0, finalScore))

\* array.sort((a, b) => key(b) - key(a)), keys[i] being the key of seq[i]:
\* descending by key, stable
SortDescending(seq, keys) ==
    LET n == Len(seq)
        precedes(j, i) == keys[j] > keys[i] \/ (keys[j] = keys[i] /\ j < i)
        at(k) == CHOOSE i \in 1..n : Cardinality({j \in 1..n : precedes(j, i)}) = k - 1
    IN  [k \in 1..n |-> seq[at(k)]]

\* array.slice(0, n)
Take(seq, n) == SubSeq(seq, 1, Min(n, Len(seq)))

\* the sort keys: score of a scored entry, (weight || 0) of a vector
ScoresOf(entries) == [i \in 1..Len(entries) |-> entries[i].score]

WeightsOf(vectors) == [i \in 1..Len(vectors) |-> vectors[i].weight]

\* vectors.find(vec => vec.id === id), for an id that has a vector
FindById(vectors, id) ==
    vectors[CHOOSE i \in 1..Len(vectors) :
                vectors[i].id = id /\ \A j \in 1..(i - 1) : vectors[j].id # id]

GetByPriorityNoBreak(vectors, queue) ==
    LET ordered == queue.high \o queue.medium \o queue.low
        known == SelectSeq(ordered, LAMBDA id : \E i \in 1..Len(vectors) : vectors[i].id = id)
        fromQueue == [k \in 1..Len(known) |-> FindById(vectors, known[k])]
        rest == SelectSeq(vectors, LAMBDA v : \A k \in 1..Len(fromQueue) : fromQueue[k] # v)
        remaining == SortDescending(rest, WeightsOf(rest))
    IN  fromQueue \o Take(remaining, Max(0, MaxInjected - Len(fromQueue)))

\* _getByPriority: vectors in queue order up to maxInjected, then the remaining
\* vectors by descending weight
GetByPriority(vectors, queue) ==
    LET ordered == queue.high \o queue.medium \o queue.low
        known == SelectSeq(ordered, LAMBDA id : \E i \in 1..Len(vectors) : vectors[i].id = id)
        fromQueue == [k \in 1..Min(MaxInjected, Len(known)) |-> FindById(vectors, known[k])]
        rest == SelectSeq(vectors, LAMBDA v : \A k \in 1..Len(fromQueue) : fromQueue[k] # v)
        remaining == SortDescending(rest, WeightsOf(rest))
    IN  fromQueue \o Take(remaining, MaxInjected - Len(fromQueue))

SelectRelevantUnsorted(scored) ==
    Take(SelectSeq(scored, LAMBDA e : e.score >= RelevanceThreshold), MaxInjected)

\* scored.filter(score >= threshold).sort(descending).slice(0, maxInjected)
SelectRelevant(scored) ==
    LET kept == SelectSeq(scored, LAMBDA e : e.score >= RelevanceThreshold)
    IN  Take(SortDescending(kept, ScoresOf(kept)), MaxInjected)

NoFeedback == [entries |-> <<>>, avgEntropyDelta |-> 0, totalInjections |-> 0]

MaxRankCalls == 1

\* The clock time of the ranking runs, in seconds
RankClockStart == 40 * Day

\* getRelevantVectors(userMessage, entropyScore, {returnScores}) of a store with
\* the given file, cache fields and feedback file at clock time `time`: the
\* value returned, the cache fields left, and the path taken
GetRelevantVectorsIn(file, c, checksum, timestamp, fb, time, userMessage, entropyScore, returnScores) ==
    LET first    == LoadFile(file, c, checksum, timestamp, time)
        vectors  == SelectSeq(first.data.vectors, IsInjectable)
        fallback == Len(userMessage) = 0 \/ IsBlank(userMessage)
        \* _getByPriority calls loadFile again
        second   == LoadFile(file, first.cache, first.checksum, first.timestamp, time)
        loaded   == IF Len(vectors) > 0 /\ fallback THEN second ELSE first
        msgLower == ToLowerCase(userMessage)
        msgWords == ExtractWords(msgLower)
        scored   == [i \in 1..Len(vectors) |->
                        [vector |-> vectors[i],
                         score |-> CalculateRelevance(vectors[i], msgLower, msgWords,
                                       entropyScore, fb[vectors[i].id], time)]]
        byPriority == GetByPriority(vectors, second.data.queue)
        chosen   == IF Len(vectors) = 0 THEN <<>>
                    ELSE IF fallback
                    THEN [i \in 1..Len(byPriority) |->
                             [vector |-> byPriority[i], score |-> ScoreOne]]
                    ELSE SelectRelevant(scored)
    IN  [loaded |-> loaded,
         vectors |-> vectors,
         scored |-> chosen,
         returned |-> IF returnScores THEN chosen
                      ELSE [i \in 1..Len(chosen) |-> chosen[i].vector],
         path |-> IF Len(vectors) = 0 THEN "empty"
                  ELSE IF fallback THEN "priority" ELSE "scored"]

\* getRelevantVectors in the current state of the store
GetRelevantVectorsResult(userMessage, entropyScore, returnScores) ==
    GetRelevantVectorsIn(gvFile, cache, cacheChecksum, cacheTimestamp, feedback, now,
                         userMessage, entropyScore, returnScores)

GetRelevantVectors(userMessage, entropyScore, returnScores) ==
    /\ steps' = steps + 1
    /\ \E r \in {GetRelevantVectorsResult(userMessage, entropyScore, returnScores)} :
          /\ cache' = r.loaded.cache
          /\ cacheChecksum' = r.loaded.checksum
          /\ cacheTimestamp' = r.loaded.timestamp
          /\ rankResult' = r.returned
          /\ rankScored' = r.scored
          /\ rankPath' = r.path
          /\ rankArgs' = [userMessage |-> userMessage, entropyScore |-> entropyScore,
                          time |-> now, vectors |-> r.vectors,
                          queue |-> r.loaded.data.queue, file |-> gvFile]
          /\ storeOp' = [name |-> "getRelevantVectors", before |-> gvFile,
                         promoted |-> FALSE, returned |-> r.loaded.data]
    /\ UNCHANGED <<now, gvFile, feedback, feedbackLog, notStoreVars>>

\* loadFile()
LoadFileCall ==
    /\ steps' = steps + 1
    /\ \E r \in {LoadFile(gvFile, cache, cacheChecksum, cacheTimestamp, now)} :
          /\ cache' = r.cache
          /\ cacheChecksum' = r.checksum
          /\ cacheTimestamp' = r.timestamp
          /\ storeOp' = [name |-> "loadFile", before |-> gvFile, promoted |-> FALSE,
                         returned |-> r.data, parsed |-> r.parsed, cached |-> cache]
    /\ UNCHANGED <<now, gvFile, feedback, feedbackLog, rankResult, rankScored, rankPath,
                   rankArgs, notStoreVars>>

\* Another process (the agent that owns the file) writes growth-vectors.json.
ExternalWrite(content) ==
    /\ steps' = steps + 1
    /\ gvFile' = [exists |-> TRUE, content |-> content]
    /\ storeOp' = [name |-> "externalWrite", before |-> gvFile, promoted |-> FALSE,
                   returned |-> content]
    /\ UNCHANGED <<now, cache, cacheChecksum, cacheTimestamp, feedback, feedbackLog,
                   rankResult, rankScored, rankPath, rankArgs, notStoreVars>>

\* Time passes between two operations on the store.
PassTime(d) ==
    /\ steps' = steps + 1
    /\ now' = now + d
    /\ UNCHANGED <<storeVars, notStoreVars>>

\* ------------------------------------------------------------------------
\* VectorStore: candidates, lifecycle and file helpers
\* ------------------------------------------------------------------------
\* this.maxVectors = config.maxVectors || 100, here configured as 3 so that a
\* list over the limit stays small
MaxVectors == 3

\* config.candidatePromotionThreshold || 3
PromotionThreshold == 3

\* runLifecycle prunes candidates detected 30 days ago or earlier
CandidateMaxAge == 30 * Day

\* _readFileRaw
ReadFileRaw(file) == IF file.exists THEN file.content ELSE EmptyFile

\* _similarity: shared words over all words of the two texts, in score units
Similarity(a, b) ==
    IF Len(a) = 0 \/ Len(b) = 0 THEN 0
    ELSE LET wordsA == ExtractWords(ToLowerCase(a))
             wordsB == ExtractWords(ToLowerCase(b))
             union == Cardinality(wordsA \cup wordsB)
         IN  IF union > 0 THEN (Cardinality(wordsA \cap wordsB) * ScoreOne) \div union ELSE 0

\* A similarity of exactly 0.7 counts as a duplicate
IsDuplicateOfAtLeast(c, candidate) ==
    /\ c.type = candidate.type
    /\ Similarity(c.description, candidate.description) >= (7 * ScoreOne) \div 10

\* the duplicate test of addCandidate: same type and similarity above 0.7
IsDuplicateOf(c, candidate) ==
    /\ c.type = candidate.type
    /\ Similarity(c.description, candidate.description) > (7 * ScoreOne) \div 10

\* addCandidate on the parsed file `data` at clock time `time`: the data it
\* writes and whether it promoted the existing candidate
AddCandidateResult(data, candidate, time) ==
    LET candidates == data.candidates
        dups == {i \in 1..Len(candidates) : IsDuplicateOf(candidates[i], candidate)}
    IN  IF dups # {}
        THEN LET at == CHOOSE i \in dups : \A j \in dups : i <= j
                 old == candidates[at]
                 existing == [old EXCEPT
                                !.recurrence = (IF old.recurrence = 0 THEN 1
                                                ELSE old.recurrence) + 1,
                                !.last_seen = time]
             IN  IF existing.recurrence >= PromotionThreshold
                 THEN LET promoted == [existing EXCEPT
                                         !.validation_status = "validated",
                                         !.validation_note = "Auto-promoted"]
                      IN  [data |-> [data EXCEPT
                                       !.vectors = Append(data.vectors, promoted),
                                       !.candidates = SelectSeq(candidates,
                                                         LAMBDA c : c.id # promoted.id)],
                           promoted |-> TRUE]
                 ELSE [data |-> [data EXCEPT !.candidates[at] = existing],
                       promoted |-> FALSE]
        ELSE [data |-> [data EXCEPT !.candidates =
                          Append(candidates,
                                 [candidate EXCEPT
                                    !.detected = IF candidate.detected = NULL THEN time
                                                 ELSE candidate.detected,
                                    !.validation_status = "candidate",
                                    !.source = "auto"])],
              promoted |-> FALSE]

\* validateVector(id, note) on the parsed file: the data it leaves, whether it
\* writes the file, and the action it reports
ValidateVectorResult(data, id, note) ==
    LET candidates == data.candidates
        found == {i \in 1..Len(candidates) : candidates[i].id = id}
        listed == {i \in 1..Len(data.vectors) : data.vectors[i].id = id}
    IN  IF found # {}
        THEN LET at == CHOOSE i \in found : \A j \in found : i <= j
                 candidate == [candidates[at] EXCEPT
                                 !.validation_status = "validated",
                                 !.validation_note = IF note = "" THEN "Manually validated"
                                                     ELSE note]
             IN  [data |-> [data EXCEPT
                              !.vectors = Append(data.vectors, candidate),
                              !.candidates = [k \in 1..(Len(candidates) - 1) |->
                                                 IF k < at THEN candidates[k]
                                                 ELSE candidates[k + 1]]],
                  written |-> TRUE, action |-> "promoted"]
        ELSE IF listed # {}
        THEN LET at == CHOOSE i \in listed : \A j \in listed : i <= j
             IN  [data |-> [data EXCEPT
                              !.vectors[at].validation_status = "validated",
                              !.vectors[at].validation_note =
                                  IF note = "" THEN data.vectors[at].validation_note
                                  ELSE note],
                  written |-> TRUE, action |-> "validated"]
        ELSE [data |-> data, written |-> FALSE, action |-> "not found"]

\* new Date(entry.detected || 0).getTime()
DetectedTime(entry) == IF entry.detected = NULL THEN 0 ELSE entry.detected

DetectedTimes(entries) == [i \in 1..Len(entries) |-> DetectedTime(entries[i])]

\* A candidate detected exactly 30 days ago is kept
RunLifecycleKeepsThirtieth(data, time) ==
    LET kept == SelectSeq(data.candidates,
                          LAMBDA c : DetectedTime(c) >= time - CandidateMaxAge)
        over == Len(data.vectors) > MaxVectors
        vectors == IF over
                   THEN Take(SortDescending(data.vectors, DetectedTimes(data.vectors)),
                             MaxVectors)
                   ELSE data.vectors
    IN  [data |-> [data EXCEPT !.candidates = kept, !.vectors = vectors],
         written |-> Len(kept) # Len(data.candidates) \/ over,
         pruned |-> Len(data.candidates) - Len(kept)]

\* runLifecycle on the parsed file at clock time `time`: the data it leaves and
\* whether it writes the file
RunLifecycleResult(data, time) ==
    LET kept == SelectSeq(data.candidates,
                          LAMBDA c : DetectedTime(c) > time - CandidateMaxAge)
        over == Len(data.vectors) > MaxVectors
        vectors == IF over
                   THEN Take(SortDescending(data.vectors, DetectedTimes(data.vectors)),
                             MaxVectors)
                   ELSE data.vectors
    IN  [data |-> [data EXCEPT !.candidates = kept, !.vectors = vectors],
         written |-> Len(kept) # Len(data.candidates) \/ over,
         pruned |-> Len(data.candidates) - Len(kept)]

\* addCandidate(candidate): always ends in _writeFile, which drops the checksum
\* and the timestamp of the cache
AddCandidate(candidate) ==
    /\ steps' = steps + 1
    /\ \E r \in {AddCandidateResult(ReadFileRaw(gvFile), candidate, now)} :
          /\ gvFile' = [exists |-> TRUE, content |-> r.data]
          /\ storeOp' = [name |-> "addCandidate", before |-> gvFile,
                         promoted |-> r.promoted, returned |-> r.data,
                         arg |-> candidate]
    /\ cacheChecksum' = <<>>
    /\ cacheTimestamp' = 0
    /\ UNCHANGED <<now, cache, feedback, feedbackLog, rankResult, rankScored, rankPath,
                   rankArgs, notStoreVars>>

\* validateVector(id, note)
ValidateVector(id, note) ==
    /\ steps' = steps + 1
    /\ \E r \in {ValidateVectorResult(ReadFileRaw(gvFile), id, note)} :
          /\ gvFile' = IF r.written THEN [exists |-> TRUE, content |-> r.data] ELSE gvFile
          /\ cacheChecksum' = IF r.written THEN <<>> ELSE cacheChecksum
          /\ cacheTimestamp' = IF r.written THEN 0 ELSE cacheTimestamp
          /\ storeOp' = [name |-> "validateVector", before |-> gvFile,
                         promoted |-> r.action = "promoted", returned |-> r.data]
    /\ UNCHANGED <<now, cache, feedback, feedbackLog, rankResult, rankScored, rankPath,
                   rankArgs, notStoreVars>>

\* runLifecycle()
RunLifecycle ==
    /\ steps' = steps + 1
    /\ \E r \in {RunLifecycleResult(ReadFileRaw(gvFile), now)} :
          /\ gvFile' = IF r.written THEN [exists |-> TRUE, content |-> r.data] ELSE gvFile
          /\ cacheChecksum' = IF r.written THEN <<>> ELSE cacheChecksum
          /\ cacheTimestamp' = IF r.written THEN 0 ELSE cacheTimestamp
          /\ storeOp' = [name |-> "runLifecycle", before |-> gvFile,
                         promoted |-> FALSE, returned |-> r.data, at |-> now]
    /\ UNCHANGED <<now, cache, feedback, feedbackLog, rankResult, rankScored, rankPath,
                   rankArgs, notStoreVars>>

RECURSIVE SumFrom(_, _)
SumFrom(seq, i) == IF i > Len(seq) THEN 0 ELSE seq[i] + SumFrom(seq, i + 1)

\* The record recordFeedback leaves for a vector whose window holds `deltas`
\* (entropy deltas in hundredths): avgEntropyDelta is their mean, in score units.
FeedbackRecord(deltas) ==
    [entries |-> deltas,
     avgEntropyDelta |-> IF Len(deltas) = 0 THEN 0
                         ELSE (SumFrom(deltas, 1) * (ScoreOne \div 100)) \div Len(deltas),
     totalInjections |-> Len(deltas)]

NoText == <<>>

\* "tool loop"
TextToolLoop == <<116, 111, 111, 108, 32, 108, 111, 111, 112>>

\* "The tool"
TextTheTool == <<84, 104, 101, 32, 116, 111, 111, 108>>

\* "loop"
TextLoop == <<108, 111, 111, 112>>

\* "Tool-loop!"
TextToolLoopMarked == <<84, 111, 111, 108, 45, 108, 111, 111, 112, 33>>

\* "check loop state"
TextCheckLoopState == <<99, 104, 101, 99, 107, 32, 108, 111, 111, 112, 32, 115, 116, 97, 116, 101>>

\* "Fix the tool loop"
TextFixTheToolLoop == <<70, 105, 120, 32, 116, 104, 101, 32, 116, 111, 111, 108, 32, 108, 111, 111, 112>>

\* " "
TextBlank == <<32>>

\* "unrelated"
TextUnrelated == <<117, 110, 114, 101, 108, 97, 116, 101, 100>>

Messages == {NoText, TextBlank, TextFixTheToolLoop, TextLoop, TextUnrelated}

EntropyScores == {0, 50, 80}

VectorIds == {"gv-1", "gv-2", "gv-3", "gv-4", "gv-5", "gv-6", "gv-auto-1", "gv-auto-2"}

\* config.feedbackWindowSize || 10
FeedbackWindowSize == 10

RecordFeedbackKeepAll(record, delta) ==
    LET entries == Append(record.entries, delta)
    IN  [entries |-> entries,
         avgEntropyDelta |-> (SumFrom(entries, 1) * (ScoreOne \div 100)) \div Len(entries),
         totalInjections |-> record.totalInjections + 1]

\* The record recordFeedback leaves when it appends an entry with this entropy
\* delta (in hundredths) to `record`
RecordFeedbackResult(record, delta) ==
    LET entries == LastN(Append(record.entries, delta), FeedbackWindowSize)
    IN  [entries |-> entries,
         avgEntropyDelta |-> (SumFrom(entries, 1) * (ScoreOne \div 100)) \div Len(entries),
         totalInjections |-> record.totalInjections + 1]

\* recordFeedback(vectorId, {entropyDelta}); "" stands for a missing vectorId
RecordFeedback(vectorId, delta) ==
    /\ steps' = steps + 1
    /\ IF vectorId = ""
       THEN UNCHANGED <<feedback, feedbackLog>>
       ELSE /\ feedback' = [feedback EXCEPT
                               ![vectorId] = RecordFeedbackResult(feedback[vectorId], delta)]
            /\ feedbackLog' = [feedbackLog EXCEPT ![vectorId] = Append(@, delta)]
    /\ UNCHANGED <<now, gvFile, cache, cacheChecksum, cacheTimestamp, rankResult, rankScored,
                   rankPath, rankArgs, storeOp, notStoreVars>>

\* The deltas recorded before the exploration starts, oldest first
RECURSIVE RecordAll(_, _, _)
RecordAll(record, deltas, i) ==
    IF i > Len(deltas) THEN record
    ELSE RecordAll(RecordFeedbackResult(record, deltas[i]), deltas, i + 1)

EntropyDeltas == {-50, 5, 60}

FeedbackIds == {"gv-2", "gv-4", ""}

FeedbackHistories ==
    {<<>>, <<-50, -50>>, <<60, 5, -50, 5, 5, 60, -50, 5, 60>>}

MaxFeedbackCalls == 3

\* An entry of the vectors or of the candidates list.  A field the entry does not
\* carry holds the value the source defaults it to: "" or <<>> for a text, 0 for
\* weight and recurrence, NULL for a date.
Vector(id, hypothesis, description, source, weight, detected, status) ==
    [id |-> id, integration_hypothesis |-> hypothesis, description |-> description,
     entropy_source |-> source, weight |-> weight, detected |-> detected,
     validation_status |-> status, type |-> "", recurrence |-> 0, last_seen |-> NULL,
     validation_note |-> "", source |-> ""]

\* The vectors the agent's file is drawn from: one with neither weight nor date, a
\* recent correction, an older reflection with punctuation in its text, a partial
\* match, a vector that is not validated yet, and one dated in the future.
VectorPool ==
    <<Vector("gv-2", TextTheTool, TextLoop, "", 0, NULL, "integrated"),
      Vector("gv-1", TextToolLoop, NoText, "user_correction", 100,
             RankClockStart - Day, "validated"),
      Vector("gv-3", TextToolLoopMarked, NoText, "elevated_entropy_self_reflection", 50,
             RankClockStart - 8 * Day, "validated"),
      Vector("gv-4", TextCheckLoopState, NoText, "drift", 100, RankClockStart, "validated"),
      Vector("gv-5", TextToolLoop, NoText, "user_correction", 100,
             RankClockStart - Day, "candidate"),
      Vector("gv-6", TextToolLoop, NoText, "pattern_break", 100,
             RankClockStart + 35 * Day, "validated")>>

MaxFileVectors == 3

\* The vector lists of the file: up to MaxFileVectors pool vectors, in pool order
VectorLists ==
    LET picks == {p \in SUBSET (1..Len(VectorPool)) : Cardinality(p) <= MaxFileVectors}
        nth(p, k) == CHOOSE i \in p : Cardinality({j \in p : j < i}) = k - 1
    IN  {[k \in 1..Cardinality(p) |-> VectorPool[nth(p, k)]] : p \in picks}

\* An empty queue; one naming an unknown id and a candidate; one naming the same
\* id in two lists
Queues ==
    {[high |-> <<>>, medium |-> <<>>, low |-> <<>>],
     [high |-> <<"gv-2", "gv-9">>, medium |-> <<"gv-5">>, low |-> <<"gv-1", "gv-3">>],
     [high |-> <<"gv-2">>, medium |-> <<"gv-2">>, low |-> <<>>]}

\* No feedback yet; or enough feedback to lower gv-2 and to raise gv-4, and too
\* little to count for gv-1
Feedbacks ==
    {[id \in VectorIds |-> NoFeedback],
     [id \in VectorIds |->
        IF id = "gv-2" THEN FeedbackRecord(<<5, 5, 5>>)
        ELSE IF id = "gv-4" THEN FeedbackRecord(<<-50, -40, -60>>)
        ELSE IF id = "gv-1" THEN FeedbackRecord(<<-20, -20>>)
        ELSE NoFeedback]}

Files ==
    {[exists |-> FALSE, content |-> EmptyFile]}
        \cup {[exists |-> TRUE,
               content |-> [vectors |-> l, candidates |-> <<>>, queue |-> q]] :
                  l \in VectorLists, q \in Queues}

\* "Verify loop"
TextVerifyLoop == <<86, 101, 114, 105, 102, 121, 32, 108, 111, 111, 112>>

\* "check loop state now"
TextCheckLoopStateNow == <<99, 104, 101, 99, 107, 32, 108, 111, 111, 112, 32, 115, 116, 97, 116, 101, 32, 110, 111, 119>>

\* A candidate as Identity._createCandidateVector builds it
Candidate(id, type, hypothesis, description) ==
    [Vector(id, hypothesis, description, type, 50, NULL, "") EXCEPT
        !.type = type, !.source = "auto"]

\* The candidates passed to addCandidate
CandidateInputs ==
    {Candidate("gv-auto-1", "user_correction", TextVerifyLoop, TextToolLoop),
     Candidate("gv-auto-2", "auto_detected", TextCheckLoopStateNow, TextCheckLoopStateNow)}

\* A candidate of the file seen twice so far, and one detected 31 days ago
RecurringCandidate ==
    [Candidate("gv-auto-1", "user_correction", TextVerifyLoop, TextToolLoop) EXCEPT
        !.detected = RankClockStart - Day, !.validation_status = "candidate",
        !.recurrence = 2, !.last_seen = RankClockStart - Day]

OldCandidate ==
    [Candidate("gv-auto-2", "auto_detected", TextCheckLoopState, TextCheckLoopState) EXCEPT
        !.detected = RankClockStart - 31 * Day, !.validation_status = "candidate"]

\* The files the candidate and lifecycle operations start from: no file; a file
\* with three vectors and two candidates; a file with one vector more than
\* maxVectors, the first of them the oldest
LifecycleFiles ==
    {[exists |-> FALSE, content |-> EmptyFile],
     [exists |-> TRUE,
      content |-> [vectors |-> <<VectorPool[1], VectorPool[2], VectorPool[5]>>,
                   candidates |-> <<OldCandidate, RecurringCandidate>>,
                   queue |-> [high |-> <<"gv-auto-1">>, medium |-> <<>>, low |-> <<>>]]],
     [exists |-> TRUE,
      content |-> [vectors |-> [i \in 1..(MaxVectors + 1) |-> VectorPool[i]],
                   candidates |-> <<>>,
                   queue |-> EmptyFile.queue]]}

\* What the owner of the file writes to it
ExternalContents ==
    {[vectors |-> <<VectorPool[2]>>, candidates |-> <<>>, queue |-> EmptyFile.queue],
     [vectors |-> <<VectorPool[2], VectorPool[3]>>, candidates |-> <<>>,
      queue |-> EmptyFile.queue]}

\* One step inside the cache's freshness window, one across it
CacheClockSteps == {12, 36}

MaxCacheSteps == 4

ValidateIds == {"gv-auto-2", "gv-5", "gv-9"}

ValidateNotes == {"", "checked"}

MaxStoreSteps == 4

NoCall == [userMessage |-> NoText, entropyScore |-> 0, time |-> 0, vectors |-> <<>>,
           queue |-> EmptyFile.queue, file |-> [exists |-> FALSE, content |-> EmptyFile]]

\* A VectorStore just constructed, with no file read yet
InitStore ==
    /\ cache = [set |-> FALSE, data |-> EmptyFile]
    /\ cacheChecksum = <<>>
    /\ cacheTimestamp = 0
    /\ rankResult = <<>>
    /\ rankScored = <<>>
    /\ rankPath = "none"
    /\ rankArgs = NoCall
    /\ storeOp = [name |-> "none", before |-> [exists |-> FALSE, content |-> EmptyFile],
                  promoted |-> FALSE, returned |-> EmptyFile]

InitStoreIdle ==
    /\ InitStore
    /\ gvFile = [exists |-> FALSE, content |-> EmptyFile]
    /\ feedback = [id \in VectorIds |-> NoFeedback]
    /\ feedbackLog = [id \in VectorIds |-> <<>>]

\* ------------------------------------------------------------------------
\* Detectors: recursive meta-discussion
\* ------------------------------------------------------------------------
\* this.recentMetaCounts ring buffer length
MetaWindow == 5

\* config.metaConceptCriticalThreshold || 16
MetaCriticalThreshold == 16

\* config.metaConceptDangerThreshold || 14
MetaDangerThreshold == 14

\* config.metaConceptWarningThreshold || 10
MetaWarningThreshold == 10

\* The bonuses 0.45, 0.3 and 0.15, in hundredths
MetaCriticalBonus == 45

MetaDangerBonus == 30

MetaWarningBonus == 15

\* new Identity(config, dataDir) and an agent_end that has stored nothing yet
InitIdentity ==
    /\ activeTensions = <<>>
    /\ memoryStore = <<>>
    /\ identityOp = [name |-> "none", before |-> <<>>, detected |-> <<>>, resolved |-> <<>>,
                     response |-> <<>>, memoryApi |-> FALSE, at |-> 0, stored |-> 0,
                     created |-> 0]
    /\ heartbeatOp = [name |-> "none", response |-> <<>>, memoryApi |-> FALSE, stored |-> 0,
                      raised |-> FALSE]

\* new Detectors(config)
InitDetectors ==
    /\ recentMetaCounts = <<>>
    /\ metaBonus = 0
    /\ metaLog = <<>>

\* recentMetaCounts.forEach(count => { if (count > 0) historyCount += count })
RECURSIVE HistoryCount(_)
HistoryCount(counts) ==
    IF counts = <<>> THEN 0
    ELSE (IF Head(counts) > 0 THEN Head(counts) ELSE 0) + HistoryCount(Tail(counts))

PushMetaCountNoShift(counts, currentCount) == Append(counts, currentCount)

\* push(currentCount); if (length > 5) shift()
PushMetaCount(counts, currentCount) ==
    LET pushed == Append(counts, currentCount)
    IN  IF Len(pushed) > MetaWindow THEN Tail(pushed) ELSE pushed

MetaBonusFor(totalDensity) ==
    IF totalDensity > MetaCriticalThreshold THEN MetaCriticalBonus
    ELSE IF totalDensity > MetaDangerThreshold THEN MetaDangerBonus
    ELSE IF totalDensity > MetaWarningThreshold THEN MetaWarningBonus
    ELSE 0

\* isRecursiveMetaDiscussion, given what countMetaConcepts returned for the turn
IsRecursiveMetaDiscussionResult(enabled, counts, currentCount) ==
    IF ~enabled THEN [bonus |-> 0, counts |-> counts]
    ELSE [bonus |-> MetaBonusFor(currentCount + HistoryCount(counts)),
          counts |-> PushMetaCount(counts, currentCount)]

\* config.detectors.recursiveMeta
RecursiveMetaEnabled == TRUE

IsRecursiveMetaDiscussion(currentCount) ==
    /\ steps' = steps + 1
    /\ \E r \in {IsRecursiveMetaDiscussionResult(RecursiveMetaEnabled, recentMetaCounts,
                                                  currentCount)} :
          /\ metaBonus' = r.bonus
          /\ recentMetaCounts' = r.counts
    /\ metaLog' = Append(metaLog, currentCount)
    /\ UNCHANGED <<now, notDetectorVars>>

\* ------------------------------------------------------------------------
\* Hooks: per-agent state, before_agent_start, agent_end, after_tool_call,
\* before_compaction
\* ------------------------------------------------------------------------
\* ctx.agentId of the hook invocations
Agents == {"main", "helper"}

\* this.recentHistory ring buffer length
RecentHistoryCap == 5

\* entropyScore > 0.6 creates a candidate vector (hundredths)
CandidateEntropyFloor == 60

\* new AgentState(agentId, workspacePath): the module instances with the files
\* under the agent's own data directory (feedback)
NewAgentState ==
    [lastScore |-> 0,
     sustainedTurns |-> 0,
     sustainedStartTime |-> NULL,
     recentHistory |-> <<>>,
     recentMetaCounts |-> <<>>,
     toolHistory |-> <<>>,
     fileReadCounts |-> [p \in Paths |-> 0],
     cache |-> [set |-> FALSE, data |-> EmptyFile],
     cacheChecksum |-> <<>>,
     cacheTimestamp |-> 0,
     feedback |-> [id \in VectorIds |-> NoFeedback],
     lastInjectedVectors |-> <<>>,
     preInjectionEntropy |-> NULL]

\* this.filePath of the agent's VectorStore: config.growthVectors.filePath or
\* ~/.openclaw/workspace/memory/growth-vectors.json; the constructor takes no
\* workspace path, so the file is the same one for every agent id.
GrowthVectorsFile(agentId) == gvFile

NoEndCall ==
    [stage |-> "idle", turn |-> 0, score |-> 0, userMessage |-> <<>>, fail |-> "none",
     raised |-> FALSE,
     expected |-> [lastScore |-> 0, sustainedTurns |-> 0, sustainedStartTime |-> NULL,
                   recentHistory |-> <<>>]]

NoHook == [agent |-> "", name |-> "none", phase |-> "none"]

InitHooks ==
    /\ agentStates = [a \in Agents |-> NewAgentState]
    /\ endCall = [a \in Agents |-> NoEndCall]
    /\ turn = [a \in Agents |-> [number |-> 0, userMessage |-> <<>>, block |-> <<>>]]
    /\ capturedAt = [a \in Agents |-> 0]
    /\ feedbackTrace = <<>>
    /\ lastHook = NoHook

\* scoredResults.map(sr => ({ id: sr.vector.id, relevanceScore: sr.score }))
InjectedOf(scoredResults) ==
    [i \in 1..Len(scoredResults) |->
        [id |-> scoredResults[i].vector.id, relevanceScore |-> scoredResults[i].score]]

\* The ids of the vectors whose lines formatForInjection puts under
\* [GROWTH VECTORS] in the context block: all the ranked ones when the entropy
\* is elevated (lastScore > 0.4) or the top score is above 0.8, else none
BlockOf(scoredResults, entropyScore) ==
    LET isElevated == entropyScore > 40
        topScore == IF Len(scoredResults) > 0 THEN scoredResults[1].score ELSE 0
    IN  IF Len(scoredResults) > 0 /\ (isElevated \/ topScore * 10 > 8 * ScoreOne)
        THEN [i \in 1..Len(scoredResults) |-> scoredResults[i].vector.id]
        ELSE <<>>

\* before_agent_start: the growth-vector part of the handler, which ranks the
\* vectors against the user message and captures the injection state
BeforeAgentStart(a, userMessage) ==
    /\ endCall[a].turn = turn[a].number
    /\ steps' = steps + 1
    /\ \E r \in {GetRelevantVectorsIn(GrowthVectorsFile(a), agentStates[a].cache,
                     agentStates[a].cacheChecksum, agentStates[a].cacheTimestamp,
                     agentStates[a].feedback, now, userMessage,
                     agentStates[a].lastScore, TRUE)} :
          /\ agentStates' = [agentStates EXCEPT ![a] =
                [@ EXCEPT !.cache = r.loaded.cache,
                          !.cacheChecksum = r.loaded.checksum,
                          !.cacheTimestamp = r.loaded.timestamp,
                          !.preInjectionEntropy =
                              IF Len(r.returned) > 0 THEN agentStates[a].lastScore ELSE NULL,
                          !.lastInjectedVectors =
                              IF Len(r.returned) > 0 THEN InjectedOf(r.returned) ELSE <<>>]]
          /\ capturedAt' = [capturedAt EXCEPT ![a] =
                IF Len(r.returned) > 0 THEN turn[a].number + 1 ELSE 0]
          /\ turn' = [turn EXCEPT ![a] =
                [number |-> @.number + 1, userMessage |-> userMessage,
                 block |-> BlockOf(r.returned, agentStates[a].lastScore)]]
    /\ lastHook' = [agent |-> a, name |-> "before_agent_start", phase |-> "returned"]
    /\ UNCHANGED <<now, endCall, feedbackTrace, entropyVars, loopVars, storeVars,
                   detectorVars, scorerVars, governanceVars, identityVars>>

\* A full ring buffer drops the new entry and keeps its oldest
PushRecentHistoryKeepOldest(history, score) ==
    IF Len(history) >= RecentHistoryCap THEN history ELSE Append(history, score)

\* recentHistory.push(...); if (length > 5) shift()
PushRecentHistory(history, score) ==
    LET pushed == Append(history, score)
    IN  IF Len(pushed) > RecentHistoryCap THEN Tail(pushed) ELSE pushed

\* logObservation when the write named by `fail` fails: the ring buffer it
\* leaves and whether it throws. The log append comes before the push, the
\* history save after it, and neither is caught.
LogObservationResult(history, score, fail) ==
    IF fail = "log" THEN [recentHistory |-> history, raised |-> TRUE]
    ELSE [recentHistory |-> PushRecentHistory(history, score),
          raised |-> fail = "history"]

\* trackSustainedEntropy on an agent's counters
TrackSustainedResult(turns, start, score, time) ==
    IF AboveSustainedFloor(score)
    THEN [sustainedTurns |-> turns + 1,
          sustainedStartTime |-> IF turns + 1 = 1 THEN time ELSE start]
    ELSE [sustainedTurns |-> 0, sustainedStartTime |-> NULL]

\* agent_end up to its first await: detectors, score, sustained tracking and the
\* body of logObservation. `obs` is the score calculateEntropyScore returns for
\* the exchange and the meta-concept count of the exchange; `fail` names the
\* write that fails during this invocation.
AgentEndBegin(a, obs, fail) ==
    /\ endCall[a].stage = "idle"
    /\ endCall[a].turn < turn[a].number
    /\ steps' = steps + 1
    /\ \E meta \in {IsRecursiveMetaDiscussionResult(RecursiveMetaEnabled,
                        agentStates[a].recentMetaCounts, obs.meta)},
          tracked \in {TrackSustainedResult(agentStates[a].sustainedTurns,
                           agentStates[a].sustainedStartTime, obs.score, now)},
          logged \in {LogObservationResult(agentStates[a].recentHistory, obs.score, fail)},
          success \in {LogObservationResult(agentStates[a].recentHistory, obs.score, "none")} :
          /\ agentStates' = [agentStates EXCEPT ![a] =
                [@ EXCEPT !.recentMetaCounts = meta.counts,
                          !.lastScore = obs.score,
                          !.sustainedTurns = tracked.sustainedTurns,
                          !.sustainedStartTime = tracked.sustainedStartTime,
                          !.recentHistory = logged.recentHistory]]
          /\ endCall' = [endCall EXCEPT ![a] =
                [stage |-> IF logged.raised THEN "idle" ELSE "logged",
                 turn |-> turn[a].number,
                 score |-> obs.score,
                 userMessage |-> turn[a].userMessage,
                 fail |-> fail,
                 raised |-> logged.raised,
                 expected |-> [lastScore |-> obs.score,
                               sustainedTurns |-> tracked.sustainedTurns,
                               sustainedStartTime |-> tracked.sustainedStartTime,
                               recentHistory |-> success.recentHistory]]]
          /\ lastHook' = [agent |-> a, name |-> "agent_end",
                          phase |-> IF logged.raised THEN "raised" ELSE "suspended"]
    /\ UNCHANGED <<now, turn, capturedAt, feedbackTrace, entropyVars, loopVars, storeVars,
                   detectorVars, scorerVars, governanceVars, identityVars>>

\* agent_end for an event without an assistant or a user message: returns at once
AgentEndEarlyReturn(a) ==
    /\ endCall[a].stage = "idle"
    /\ endCall[a].turn < turn[a].number
    /\ steps' = steps + 1
    /\ endCall' = [endCall EXCEPT ![a] = [NoEndCall EXCEPT !.turn = turn[a].number]]
    /\ lastHook' = [agent |-> a, name |-> "agent_end", phase |-> "returned"]
    /\ UNCHANGED <<now, agentStates, turn, capturedAt, feedbackTrace, entropyVars, loopVars,
                   storeVars, detectorVars, scorerVars, governanceVars, identityVars>>

\* "Review and learn from elevated entropy context: "
TextReviewPrefix ==
    <<82, 101, 118, 105, 101, 119, 32, 97, 110, 100, 32, 108, 101, 97, 114, 110, 32,
      102, 114, 111, 109, 32, 101, 108, 101, 118, 97, 116, 101, 100, 32, 101, 110,
      116, 114, 111, 112, 121, 32, 99, 111, 110, 116, 101, 120, 116, 58, 32>>

\* config.principles.fallback, or the principles of SOUL.md, are loaded
PrinciplesLoaded == TRUE

\* _createCandidateVector for a turn without tensions: the candidate passed to
\* addCandidate
CreateCandidateVector(userMessage, time) ==
    [Candidate("gv-auto-1", "auto_detected", TextReviewPrefix \o userMessage, userMessage)
        EXCEPT !.detected = time, !.entropy_source = "elevated_entropy"]

\* agent_end resumed after logObservation: identity.processTurn, which adds a
\* candidate vector on elevated entropy; a failing file write is caught inside
\* addCandidate
AgentEndProcessTurn(a) ==
    /\ endCall[a].stage = "logged"
    /\ steps' = steps + 1
    /\ endCall' = [endCall EXCEPT ![a].stage = "processed"]
    /\ lastHook' = [agent |-> a, name |-> "agent_end", phase |-> "resumed"]
    /\ IF PrinciplesLoaded /\ endCall[a].score > CandidateEntropyFloor
                           /\ endCall[a].fail # "candidate"
       THEN \E r \in {AddCandidateResult(ReadFileRaw(GrowthVectorsFile(a)),
                          CreateCandidateVector(endCall[a].userMessage, now), now)} :
               /\ gvFile' = [exists |-> TRUE, content |-> r.data]
               /\ agentStates' = [agentStates EXCEPT ![a].cacheChecksum = <<>>,
                                                     ![a].cacheTimestamp = 0]
       ELSE UNCHANGED <<gvFile, agentStates>>
    /\ UNCHANGED <<now, turn, capturedAt, feedbackTrace, entropyVars, loopVars,
                   cache, cacheChecksum, cacheTimestamp, feedback, rankResult, rankScored,
                   rankPath, rankArgs, storeOp, feedbackLog, detectorVars, scorerVars, governanceVars, identityVars>>

\* for (const injected of lastInjectedVectors) recordFeedback(injected.id, ...)
RECURSIVE RecordInjected(_, _, _, _)
RecordInjected(fb, injected, i, delta) ==
    IF i > Len(injected) THEN fb
    ELSE RecordInjected(
            [fb EXCEPT ![injected[i].id] = RecordFeedbackResult(@, delta)],
            injected, i + 1, delta)

\* The entries a closure saves, with the turn that captured the batch and the
\* turn whose end computed the score
TraceOf(a, injected, batchTurn, endTurn, score) ==
    [i \in 1..Len(injected) |->
        [agent |-> a, id |-> injected[i].id, batch |-> batchTurn, scoredBy |-> endTurn,
         postEntropy |-> score]]

\* agent_end resumed after processTurn: the feedback closure, which records one
\* entry for every pending injected vector and clears the pending state; a
\* failing feedback save is caught inside recordFeedback
AgentEndClose(a) ==
    /\ endCall[a].stage = "processed"
    /\ steps' = steps + 1
    /\ endCall' = [endCall EXCEPT ![a].stage = "idle"]
    /\ lastHook' = [agent |-> a, name |-> "agent_end", phase |-> "closed"]
    /\ IF /\ Len(agentStates[a].lastInjectedVectors) > 0
          /\ agentStates[a].preInjectionEntropy # NULL
       THEN /\ agentStates' = [agentStates EXCEPT ![a] =
                 [@ EXCEPT !.feedback =
                               IF endCall[a].fail = "feedback" THEN @
                               ELSE RecordInjected(@, agentStates[a].lastInjectedVectors, 1,
                                        endCall[a].score - agentStates[a].preInjectionEntropy),
                           !.lastInjectedVectors = <<>>,
                           !.preInjectionEntropy = NULL]]
            /\ feedbackTrace' =
                 IF endCall[a].fail = "feedback" THEN feedbackTrace
                 ELSE feedbackTrace \o TraceOf(a, agentStates[a].lastInjectedVectors,
                                           capturedAt[a], endCall[a].turn, endCall[a].score)
       ELSE UNCHANGED <<agentStates, feedbackTrace>>
    /\ UNCHANGED <<now, turn, capturedAt, entropyVars, loopVars, storeVars, detectorVars, scorerVars, governanceVars, identityVars>>

\* after_tool_call: the agent's loop detector records the call
AfterToolCall(a, toolName, output, params) ==
    /\ steps' = steps + 1
    /\ \E r \in {RecordAndCheckResult(agentStates[a].toolHistory,
                     agentStates[a].fileReadCounts, toolName, output, params, now)} :
          agentStates' = [agentStates EXCEPT ![a].toolHistory = r.toolHistory,
                                             ![a].fileReadCounts = r.fileReadCounts]
    /\ lastHook' = [agent |-> a, name |-> "after_tool_call", phase |-> "returned"]
    /\ UNCHANGED <<now, endCall, turn, capturedAt, feedbackTrace, entropyVars, loopVars,
                   storeVars, detectorVars, scorerVars, governanceVars, identityVars>>

\* A session of the agent ends and its next one starts in the same process.
\* The plugin registers before_agent_start, agent_end, after_tool_call and
\* before_compaction and no session hook, getAgentState returns the state kept
\* under the agent id, and no handler calls loopDetector.reset(): nothing of
\* the agent's state changes.
SessionBoundary(a) ==
    /\ steps' = steps + 1
    /\ lastHook' = [agent |-> a, name |-> "session_boundary", phase |-> "returned"]
    /\ UNCHANGED <<now, agentStates, endCall, turn, capturedAt, feedbackTrace, entropyVars,
                   loopVars, storeVars, detectorVars, scorerVars, governanceVars, identityVars>>

\* before_compaction: reads the entropy state and stores a summary in the
\* memory API; no state of the plugin changes
BeforeCompaction(a) ==
    /\ steps' = steps + 1
    /\ lastHook' = [agent |-> a, name |-> "before_compaction", phase |-> "returned"]
    /\ UNCHANGED <<now, agentStates, endCall, turn, capturedAt, feedbackTrace, entropyVars,
                   loopVars, storeVars, detectorVars, scorerVars, governanceVars, identityVars>>

\* ------------------------------------------------------------------------
\* Entropy: composite score, quiet integration and the observation log
\* ------------------------------------------------------------------------
\* patterns.correction: 'actually', 'correction', "you're wrong", 'not quite',
\* 'technically', "that's not", 'false', 'incorrect'
CorrectionPatterns ==
    {<<97, 99, 116, 117, 97, 108, 108, 121>>,
     <<99, 111, 114, 114, 101, 99, 116, 105, 111, 110>>,
     <<121, 111, 117, 39, 114, 101, 32, 119, 114, 111, 110, 103>>,
     <<110, 111, 116, 32, 113, 117, 105, 116, 101>>,
     <<116, 101, 99, 104, 110, 105, 99, 97, 108, 108, 121>>,
     <<116, 104, 97, 116, 39, 115, 32, 110, 111, 116>>,
     <<102, 97, 108, 115, 101>>,
     <<105, 110, 99, 111, 114, 114, 101, 99, 116>>}

\* patterns.novelConceptRegex, its alternatives in order and lower-cased (the
\* regular expression ignores case): RFC-T, recursive field, quantum, emergence
\* theory, consciousness framework, architecture, paradigm shift
NovelConcepts ==
    <<<<114, 102, 99, 45, 116>>,
     <<114, 101, 99, 117, 114, 115, 105, 118, 101, 32, 102, 105, 101, 108, 100>>,
     <<113, 117, 97, 110, 116, 117, 109>>,
     <<101, 109, 101, 114, 103, 101, 110, 99, 101, 32, 116, 104, 101, 111, 114, 121>>,
     <<99, 111, 110, 115, 99, 105, 111, 117, 115, 110, 101, 115, 115, 32, 102, 114, 97, 109, 101, 119, 111, 114, 107>>,
     <<97, 114, 99, 104, 105, 116, 101, 99, 116, 117, 114, 101>>,
     <<112, 97, 114, 97, 100, 105, 103, 109, 32, 115, 104, 105, 102, 116>>>>

\* patterns.emotional: 'proud of you', 'impressed', 'concerned', 'worried',
\* 'disappointed', 'amazing', 'breakthrough', 'significant'
EmotionalPatterns ==
    {<<112, 114, 111, 117, 100, 32, 111, 102, 32, 121, 111, 117>>,
     <<105, 109, 112, 114, 101, 115, 115, 101, 100>>,
     <<99, 111, 110, 99, 101, 114, 110, 101, 100>>,
     <<119, 111, 114, 114, 105, 101, 100>>,
     <<100, 105, 115, 97, 112, 112, 111, 105, 110, 116, 101, 100>>,
     <<97, 109, 97, 122, 105, 110, 103>>,
     <<98, 114, 101, 97, 107, 116, 104, 114, 111, 117, 103, 104>>,
     <<115, 105, 103, 110, 105, 102, 105, 99, 97, 110, 116>>}

\* patterns.paradox: 'both are true', 'both and', 'paradox', 'yet',
\* 'simultaneously', 'hold together', 'tension'
ParadoxPatterns ==
    {<<98, 111, 116, 104, 32, 97, 114, 101, 32, 116, 114, 117, 101>>,
     <<98, 111, 116, 104, 32, 97, 110, 100>>,
     <<112, 97, 114, 97, 100, 111, 120>>,
     <<121, 101, 116>>,
     <<115, 105, 109, 117, 108, 116, 97, 110, 101, 111, 117, 115, 108, 121>>,
     <<104, 111, 108, 100, 32, 116, 111, 103, 101, 116, 104, 101, 114>>,
     <<116, 101, 110, 115, 105, 111, 110>>}

\* patterns.metaCognitive, as written (capital I included): 'I realize', 'I see
\* now', 'I understand now', 'revelation', 'recognized', 'learned that'
MetaCogPatterns ==
    {<<73, 32, 114, 101, 97, 108, 105, 122, 101>>,
     <<73, 32, 115, 101, 101, 32, 110, 111, 119>>,
     <<73, 32, 117, 110, 100, 101, 114, 115, 116, 97, 110, 100, 32, 110, 111, 119>>,
     <<114, 101, 118, 101, 108, 97, 116, 105, 111, 110>>,
     <<114, 101, 99, 111, 103, 110, 105, 122, 101, 100>>,
     <<108, 101, 97, 114, 110, 101, 100, 32, 116, 104, 97, 116>>}

\* reflectivePatterns: 'settling', 'integrating', 'making sense now',
\* 'clearer', 'coming together', 'resolved'
ReflectivePatterns ==
    {<<115, 101, 116, 116, 108, 105, 110, 103>>,
     <<105, 110, 116, 101, 103, 114, 97, 116, 105, 110, 103>>,
     <<109, 97, 107, 105, 110, 103, 32, 115, 101, 110, 115, 101, 32, 110, 111, 119>>,
     <<99, 108, 101, 97, 114, 101, 114>>,
     <<99, 111, 109, 105, 110, 103, 32, 116, 111, 103, 101, 116, 104, 101, 114>>,
     <<114, 101, 115, 111, 108, 118, 101, 100>>}

\* The contributions of the clauses, in hundredths
CorrectionBonus == 40

NovelConceptBonus == 15

NovelConceptCap == 30

EmotionalBonus == 30

ParadoxBonus == 20

MetaCogBonus == 20

TemporalMismatchBonus == 30

QualityDecayBonus == 20

QuietIntegrationBonus == 15

QualityExcellentBonus == 10

QualityPoorPenalty == 20

\* h.entropy > 0.6 (hundredths)
HighEntropyFloor == 60

DecayWindowHalf == 10800

\* this.DECAY_WINDOW_MS, 21600000 ms, in seconds
DecayWindow == 21600

\* patterns.some(p => text.includes(p))
SomeIncluded(patterns, text) == \E p \in patterns : Includes(text, p)

\* The alternative of the regular expression that matches at position i, 0 if none
AlternativeAt(lower, i) ==
    LET matching == {k \in 1..Len(NovelConcepts) :
                        /\ i + Len(NovelConcepts[k]) - 1 <= Len(lower)
                        /\ SubSeq(lower, i, i + Len(NovelConcepts[k]) - 1) = NovelConcepts[k]}
    IN  IF matching = {} THEN 0 ELSE CHOOSE k \in matching : \A j \in matching : k <= j

\* text.match(new RegExp(novelPattern, 'gi')).length: the matches found from
\* position i on, each search resuming behind the previous match
RECURSIVE CountConceptMatches(_, _)
CountConceptMatches(lower, i) ==
    IF i > Len(lower) THEN 0
    ELSE LET k == AlternativeAt(lower, i)
         IN  IF k = 0 THEN CountConceptMatches(lower, i + 1)
             ELSE 1 + CountConceptMatches(lower, i + Len(NovelConcepts[k]))

\* detectQuietIntegration at clock time `time`
DetectQuietIntegration(responseText, history, time) ==
    IF ~\E i \in 1..Len(history) :
            /\ history[i].entropy > HighEntropyFloor
            /\ (time - history[i].timestamp) < DecayWindow
    THEN 0
    ELSE IF SomeIncluded(ReflectivePatterns, ToLowerCase(responseText))
    THEN QuietIntegrationBonus
    ELSE 0

NovelContributionUncapped(matches) == matches * NovelConceptBonus

\* Math.min(conceptMatches.length * 0.15, 0.3)
NovelContribution(matches) == Min(matches * NovelConceptBonus, NovelConceptCap)

\* calculateEntropyScore on the ring buffer `history` at clock time `time`: the
\* score returned (and stored as lastScore) and the quiet-integration bonus in it
CalculateEntropyScoreResult(userMessage, responseText, detectorResults, context, history, time) ==
    LET userLower == ToLowerCase(userMessage)
        responseLower == ToLowerCase(responseText)
        matches == CountConceptMatches(ToLowerCase(userMessage \o responseText), 1)
        quietBonus == DetectQuietIntegration(responseText, history, time)
    IN  [score |->
            (IF SomeIncluded(CorrectionPatterns, userLower) THEN CorrectionBonus ELSE 0)
          + (IF matches > 0 THEN NovelContribution(matches) ELSE 0)
          + (IF SomeIncluded(EmotionalPatterns, userLower) THEN EmotionalBonus ELSE 0)
          + (IF SomeIncluded(ParadoxPatterns, responseLower) THEN ParadoxBonus ELSE 0)
          + (IF SomeIncluded(MetaCogPatterns, responseLower) THEN MetaCogBonus ELSE 0)
          + (IF detectorResults.temporalMismatch THEN TemporalMismatchBonus ELSE 0)
          + (IF detectorResults.qualityDecay THEN QualityDecayBonus ELSE 0)
          + (IF detectorResults.recursiveMetaBonus > 0
             THEN detectorResults.recursiveMetaBonus ELSE 0)
          + (IF quietBonus > 0 THEN quietBonus ELSE 0)
          + (IF context.quality = "excellent" THEN QualityExcellentBonus
             ELSE IF context.quality = "poor" THEN -QualityPoorPenalty
             ELSE 0),
         quietBonus |-> quietBonus]

NoScoreCall ==
    [userMessage |-> <<>>, responseText |-> <<>>,
     detectorResults |-> [temporalMismatch |-> FALSE, qualityDecay |-> FALSE,
                          recursiveMetaBonus |-> 0],
     context |-> [quality |-> ""], history |-> <<>>, time |-> NULL,
     score |-> 0, quietBonus |-> 0, logged |-> FALSE]

\* new Entropy(config, dataDir), before the history file is read
InitScorer ==
    /\ recentHistory = <<>>
    /\ lastScore = 0
    /\ logFile = <<>>
    /\ scoreCall = NoScoreCall
    /\ prevScoreCall = NoScoreCall
    /\ observed = <<>>
    /\ logOp = [name |-> "none", before |-> <<>>, historyBefore |-> <<>>]

\* calculateEntropyScore(userMessage, responseText, detectorResults, context)
CalculateEntropyScore(userMessage, responseText, detectorResults, context) ==
    /\ steps' = steps + 1
    /\ \E r \in {CalculateEntropyScoreResult(userMessage, responseText, detectorResults,
                                             context, recentHistory, now)} :
          /\ lastScore' = r.score
          /\ scoreCall' = [userMessage |-> userMessage, responseText |-> responseText,
                           detectorResults |-> detectorResults, context |-> context,
                           history |-> recentHistory, time |-> now,
                           score |-> r.score, quietBonus |-> r.quietBonus,
                           logged |-> FALSE]
    /\ prevScoreCall' = scoreCall
    /\ UNCHANGED <<now, recentHistory, logFile, observed, logOp, notScorerVars>>

\* The log keeps 500 records; beyond that its last 250 are kept
LogCapacity == 500

LogKept == 250

PruneLogLate(lines) ==
    IF Len(lines) > LogCapacity + 1 THEN LastN(lines, LogKept) ELSE lines

\* _pruneLog
PruneLog(lines) ==
    IF Len(lines) > LogCapacity THEN LastN(lines, LogKept) ELSE lines

\* logObservation(entry) at clock time `time`: the log file and the ring buffer
\* it leaves
LogObservationFull(lines, history, entry, time) ==
    [logFile |-> PruneLog(Append(lines, [timestamp |-> time, score |-> entry.score])),
     recentHistory |-> PushRecentHistory(history,
                           [timestamp |-> time, entropy |-> entry.score,
                            metaConceptCount |-> entry.metaConceptCount])]

\* logObservation(entry); entry.metaConceptCount is 0 when the caller passes none
LogObservation(entry) ==
    /\ steps' = steps + 1
    /\ \E r \in {LogObservationFull(logFile, recentHistory, entry, now)} :
          /\ logFile' = r.logFile
          /\ recentHistory' = r.recentHistory
    /\ observed' = Append(observed, [timestamp |-> now, entropy |-> entry.score])
    /\ logOp' = [name |-> "logObservation", before |-> logFile,
                 historyBefore |-> recentHistory]
    /\ UNCHANGED <<now, lastScore, scoreCall, prevScoreCall, notScorerVars>>

\* The exchange is logged with its score before the quiet-integration test runs
LogThenScore(userMessage, responseText, detectorResults) ==
    /\ steps' = steps + 1
    /\ \E base \in {CalculateEntropyScoreResult(userMessage, responseText, detectorResults,
                                                [quality |-> ""], <<>>, now)} :
       \E l \in {LogObservationFull(logFile, recentHistory,
                       [score |-> base.score, metaConceptCount |-> 0], now)} :
       \E r \in {CalculateEntropyScoreResult(userMessage, responseText, detectorResults,
                                             [quality |-> ""], l.recentHistory, now)} :
          /\ lastScore' = r.score
          /\ scoreCall' = [userMessage |-> userMessage, responseText |-> responseText,
                           detectorResults |-> detectorResults,
                           context |-> [quality |-> ""],
                           history |-> recentHistory, time |-> now,
                           score |-> r.score, quietBonus |-> r.quietBonus,
                           logged |-> TRUE]
          /\ logFile' = l.logFile
          /\ recentHistory' = l.recentHistory
          /\ observed' = Append(observed, [timestamp |-> now, entropy |-> r.score])
    /\ prevScoreCall' = scoreCall
    /\ logOp' = [name |-> "logObservation", before |-> logFile,
                 historyBefore |-> recentHistory]
    /\ UNCHANGED <<now, notScorerVars>>

\* agent_end, steps 1 to 4 for one agent: the score of the exchange is computed
\* and then logged; the handler passes no context and no metaConceptCount
ScoreAndLog(userMessage, responseText, detectorResults) ==
    /\ steps' = steps + 1
    /\ \E r \in {CalculateEntropyScoreResult(userMessage, responseText, detectorResults,
                                             [quality |-> ""], recentHistory, now)} :
          /\ lastScore' = r.score
          /\ scoreCall' = [userMessage |-> userMessage, responseText |-> responseText,
                           detectorResults |-> detectorResults,
                           context |-> [quality |-> ""],
                           history |-> recentHistory, time |-> now,
                           score |-> r.score, quietBonus |-> r.quietBonus,
                           logged |-> TRUE]
          /\ \E l \in {LogObservationFull(logFile, recentHistory,
                           [score |-> r.score, metaConceptCount |-> 0], now)} :
                /\ logFile' = l.logFile
                /\ recentHistory' = l.recentHistory
          /\ observed' = Append(observed, [timestamp |-> now, entropy |-> r.score])
    /\ prevScoreCall' = scoreCall
    /\ logOp' = [name |-> "logObservation", before |-> logFile,
                 historyBefore |-> recentHistory]
    /\ UNCHANGED <<now, notScorerVars>>

\* ------------------------------------------------------------------------
\* Governance: rate limiter
\* ------------------------------------------------------------------------
\* The windows of the two counters, in seconds
HourWindow == 3600

DayWindow == 86400

DefaultPerHour == 3

DefaultPerDay == 20

\* value || fallback, for a number that may be absent (NULL) or 0
OrDefault(value, fallback) == IF value = NULL \/ value = 0 THEN fallback ELSE value

\* new RateLimiter(config) at clock time `time`; gov is config.governance
NewRateLimiter(gov, time) ==
    [limits |-> [perHour |-> OrDefault(gov.investigationsPerHour, DefaultPerHour),
                 perDay |-> OrDefault(gov.investigationsPerDay, DefaultPerDay)],
     hourlyCount |-> 0,
     dailyCount |-> 0,
     hourlyResetTime |-> time + HourWindow,
     dailyResetTime |-> time + DayWindow]

\* The counters are left as they are, whatever the time
CheckResetsNever(limiter, time) == limiter

\* _checkResets
CheckResets(limiter, time) ==
    LET hourly == IF time >= limiter.hourlyResetTime
                  THEN [limiter EXCEPT !.hourlyCount = 0,
                                       !.hourlyResetTime = time + HourWindow]
                  ELSE limiter
    IN  IF time >= hourly.dailyResetTime
        THEN [hourly EXCEPT !.dailyCount = 0, !.dailyResetTime = time + DayWindow]
        ELSE hourly

\* A count that has reached its limit still allows an investigation
WithinLimitsInclusive(limiter) ==
    /\ limiter.hourlyCount <= limiter.limits.perHour
    /\ limiter.dailyCount <= limiter.limits.perDay

\* hourlyCount < limits.perHour && dailyCount < limits.perDay
WithinLimits(limiter) ==
    /\ limiter.hourlyCount < limiter.limits.perHour
    /\ limiter.dailyCount < limiter.limits.perDay

\* canInvestigate(): the value returned and the limiter it leaves
CanInvestigateResult(limiter, time) ==
    LET checked == CheckResets(limiter, time)
    IN  [allowed |-> WithinLimits(checked), rateLimiter |-> checked]

\* record(): the limiter it leaves
RecordResult(limiter, time) ==
    LET checked == CheckResets(limiter, time)
    IN  [checked EXCEPT !.hourlyCount = @ + 1, !.dailyCount = @ + 1]

\* ------------------------------------------------------------------------
\* Governance: deduplication
\* ------------------------------------------------------------------------
DeduplicationWindow == 21600

\* A topic that is missing or the empty string
NoTopic == <<>>

\* String.prototype.trim
Trim(text) ==
    LET kept == {i \in 1..Len(text) : text[i] \notin Whitespace}
    IN  IF kept = {} THEN <<>>
        ELSE SubSeq(text, CHOOSE i \in kept : \A j \in kept : i <= j,
                          CHOOSE i \in kept : \A j \in kept : i >= j)

\* topic.toLowerCase().trim()
NormalizeTopic(topic) == Trim(ToLowerCase(topic))

\* new Set(a.split(/\s+/)) of a trimmed text; the empty text splits into one
\* empty word
WordSet(text) ==
    IF text = <<>> THEN {<<>>}
    ELSE {Pieces(text, Whitespace)[k] : k \in 1..Len(Pieces(text, Whitespace))}

\* An overlap of exactly 0.8 counts as similar
IsSimilarAtLeast(a, b) ==
    LET intersection == Cardinality(WordSet(a) \cap WordSet(b))
        union == Cardinality(WordSet(a)) + Cardinality(WordSet(b)) - intersection
    IN  union # 0 /\ 10 * intersection >= 8 * union

\* _similarity(a, b) > 0.8
IsSimilar(a, b) ==
    LET intersection == Cardinality(WordSet(a) \cap WordSet(b))
        union == Cardinality(WordSet(a)) + Cardinality(WordSet(b)) - intersection
    IN  union # 0 /\ 10 * intersection > 8 * union

\* isDuplicate(topic) at clock time `time`: the value returned and the map left
IsDuplicateResult(topics, topic, time) ==
    IF topic = NoTopic THEN [result |-> FALSE, recentTopics |-> topics]
    ELSE LET kept == {e \in topics : ~(time - e.timestamp > DeduplicationWindow)}
         IN  [result |-> \E e \in kept : IsSimilar(NormalizeTopic(topic), e.key),
              recentTopics |-> kept]

\* recordTopic(topic) at clock time `time`: the map left
RecordTopicResult(topics, topic, time) ==
    IF topic = NoTopic THEN topics
    ELSE {e \in topics : e.key # NormalizeTopic(topic)}
            \cup {[key |-> NormalizeTopic(topic), timestamp |-> time]}

\* ------------------------------------------------------------------------
\* Governance: quiet hours
\* ------------------------------------------------------------------------
\* A start or end that the configuration leaves out
NoClock == <<>>

\* '22:00'
DefaultQuietStart == <<50, 50, 58, 48, 48>>

\* '07:00'
DefaultQuietEnd == <<48, 55, 58, 48, 48>>

\* The first two pieces of text.split(':'); the second is absent (NoClock, which
\* Number leaves undefined) when the text has no colon
SplitClock(text) ==
    LET colons == {i \in 1..Len(text) : text[i] = 58}
        first == IF colons = {} THEN Len(text) + 1
                 ELSE CHOOSE i \in colons : \A j \in colons : i <= j
        later == {i \in colons : i > first}
        second == IF later = {} THEN Len(text) + 1
                  ELSE CHOOSE i \in later : \A j \in later : i <= j
    IN  [hours |-> SubSeq(text, 1, first - 1),
         minutes |-> IF colons = {} THEN NoClock ELSE SubSeq(text, first + 1, second - 1)]

\* Number(text) of a text of decimal digits; Number('') is 0
RECURSIVE NumberOf(_)
NumberOf(text) ==
    IF text = <<>> THEN 0
    ELSE 10 * NumberOf(SubSeq(text, 1, Len(text) - 1)) + (text[Len(text)] - 48)

\* startH * 60 + (startM || 0) of clock || fallback
ClockMinutes(clock, fallback) ==
    LET parts == SplitClock(IF clock = NoClock THEN fallback ELSE clock)
    IN  NumberOf(parts.hours) * 60 + NumberOf(parts.minutes)

\* The end of the window is part of it
IsQuietHoursClosed(quietConfig, hours, minutes) ==
    IF ~quietConfig.present THEN FALSE
    ELSE LET currentMinutes == hours * 60 + minutes
             startMinutes == ClockMinutes(quietConfig.start, DefaultQuietStart)
             endMinutes == ClockMinutes(quietConfig.end, DefaultQuietEnd)
         IN  IF startMinutes > endMinutes
             THEN currentMinutes >= startMinutes \/ currentMinutes <= endMinutes
             ELSE currentMinutes >= startMinutes /\ currentMinutes <= endMinutes

\* isQuietHours() at the local time hours:minutes; quietConfig.present is FALSE
\* when config.quietHours is missing
IsQuietHoursResult(quietConfig, hours, minutes) ==
    IF ~quietConfig.present THEN FALSE
    ELSE LET currentMinutes == hours * 60 + minutes
             startMinutes == ClockMinutes(quietConfig.start, DefaultQuietStart)
             endMinutes == ClockMinutes(quietConfig.end, DefaultQuietEnd)
         IN  IF startMinutes > endMinutes
             THEN currentMinutes >= startMinutes \/ currentMinutes < endMinutes
             ELSE currentMinutes >= startMinutes /\ currentMinutes < endMinutes

\* ------------------------------------------------------------------------
\* Governance and the investigation service: state and operations
\* ------------------------------------------------------------------------
BatchWindow == 30

NoIntent == [topic |-> NoTopic, queued |-> FALSE]

NoTimer == [set |-> FALSE, deadline |-> NULL]

NoGovOp ==
    [name |-> "none", topic |-> NoTopic, result |-> FALSE, time |-> NULL,
     before |-> NewRateLimiter([investigationsPerHour |-> NULL, investigationsPerDay |-> NULL], 0),
     topicsBefore |-> {}]

NoQuietCall ==
    [called |-> FALSE, config |-> [present |-> FALSE, start |-> NoClock, end |-> NoClock],
     hours |-> 0, minutes |-> 0, value |-> FALSE]

\* new InvestigationService(config, dataDir) at clock time `time`, with no
\* investigation-state.json
NewGovernance(gov, time) ==
    /\ rateLimiter = NewRateLimiter(gov, time)
    /\ queuedIntent = NoIntent
    /\ recentTopics = {}
    /\ pendingNotifications = <<>>
    /\ batchTimer = NoTimer
    /\ delivered = <<>>
    /\ quietCall = NoQuietCall
    /\ govOp = NoGovOp
    /\ consumedAt = <<>>
    /\ recordedAt = <<>>
    /\ queuedLog = <<>>

\* The service under the default configuration, constructed at time 0
InitGovernance ==
    NewGovernance([investigationsPerHour |-> NULL, investigationsPerDay |-> NULL], 0)

GovOpOf(name, topic, result) ==
    [name |-> name, topic |-> topic, result |-> result, time |-> now,
     before |-> rateLimiter, topicsBefore |-> recentTopics]

\* rateLimiter.canInvestigate()
CanInvestigate ==
    /\ steps' = steps + 1
    /\ \E r \in {CanInvestigateResult(rateLimiter, now)} :
          /\ rateLimiter' = r.rateLimiter
          /\ govOp' = GovOpOf("canInvestigate", NoTopic, r.allowed)
    /\ UNCHANGED <<now, queuedIntent, recentTopics, pendingNotifications, batchTimer,
                   delivered, quietCall, consumedAt, recordedAt, queuedLog,
                   notGovernanceVars>>

\* queueIntent(intent)
QueueIntent(intent) ==
    /\ steps' = steps + 1
    /\ \E d \in {IsDuplicateResult(recentTopics, intent.topic, now)},
          c \in {CanInvestigateResult(rateLimiter, now)} :
          /\ recentTopics' = d.recentTopics
          /\ rateLimiter' = IF d.result THEN rateLimiter ELSE c.rateLimiter
          /\ queuedIntent' = IF ~d.result /\ c.allowed THEN intent ELSE queuedIntent
          /\ govOp' = GovOpOf("queueIntent", intent.topic, ~d.result /\ c.allowed)
    /\ UNCHANGED <<now, pendingNotifications, batchTimer, delivered, quietCall,
                   consumedAt, recordedAt, queuedLog, notGovernanceVars>>

\* consumeQueuedIntent()
ConsumeQueuedIntent ==
    /\ steps' = steps + 1
    /\ IF queuedIntent # NoIntent
       THEN /\ queuedIntent' = NoIntent
            /\ rateLimiter' = RecordResult(rateLimiter, now)
            /\ recentTopics' = RecordTopicResult(recentTopics, queuedIntent.topic, now)
            /\ consumedAt' = Append(consumedAt, now)
            /\ recordedAt' = IF queuedIntent.topic = NoTopic THEN recordedAt
                             ELSE Append(recordedAt,
                                         [key |-> NormalizeTopic(queuedIntent.topic),
                                          time |-> now])
       ELSE UNCHANGED <<queuedIntent, rateLimiter, recentTopics, consumedAt, recordedAt>>
    /\ govOp' = GovOpOf("consumeQueuedIntent", queuedIntent.topic, queuedIntent # NoIntent)
    /\ UNCHANGED <<now, pendingNotifications, batchTimer, delivered, quietCall, queuedLog,
                   notGovernanceVars>>

\* governance.recordTopic(topic)
RecordTopic(topic) ==
    /\ steps' = steps + 1
    /\ recentTopics' = RecordTopicResult(recentTopics, topic, now)
    /\ recordedAt' = IF topic = NoTopic THEN recordedAt
                     ELSE Append(recordedAt, [key |-> NormalizeTopic(topic), time |-> now])
    /\ govOp' = GovOpOf("recordTopic", topic, FALSE)
    /\ UNCHANGED <<now, rateLimiter, queuedIntent, pendingNotifications, batchTimer,
                   delivered, quietCall, consumedAt, queuedLog, notGovernanceVars>>

\* governance.isDuplicate(topic)
IsDuplicate(topic) ==
    /\ steps' = steps + 1
    /\ \E d \in {IsDuplicateResult(recentTopics, topic, now)} :
          /\ recentTopics' = d.recentTopics
          /\ govOp' = GovOpOf("isDuplicate", topic, d.result)
    /\ UNCHANGED <<now, rateLimiter, queuedIntent, pendingNotifications, batchTimer,
                   delivered, quietCall, consumedAt, recordedAt, queuedLog,
                   notGovernanceVars>>

\* governance.isQuietHours() under config.quietHours = quietConfig at the local
\* time hours:minutes
IsQuietHours(quietConfig, hours, minutes) ==
    /\ steps' = steps + 1
    /\ quietCall' = [called |-> TRUE, config |-> quietConfig, hours |-> hours,
                     minutes |-> minutes,
                     value |-> IsQuietHoursResult(quietConfig, hours, minutes)]
    /\ UNCHANGED <<now, rateLimiter, queuedIntent, recentTopics, pendingNotifications,
                   batchTimer, delivered, govOp, consumedAt, recordedAt, queuedLog,
                   notGovernanceVars>>

\* A timer that is already running is left running
QueueNotificationKeepTimer(notification) ==
    /\ pendingNotifications' = Append(pendingNotifications,
                                      [content |-> notification, queuedAt |-> now])
    /\ batchTimer' = IF batchTimer.set THEN batchTimer
                     ELSE [set |-> TRUE, deadline |-> now + BatchWindow]
    /\ queuedLog' = Append(queuedLog, [content |-> notification, queuedAt |-> now])
    /\ UNCHANGED <<now, steps, rateLimiter, queuedIntent, recentTopics, delivered,
                   quietCall, govOp, consumedAt, recordedAt, notGovernanceVars>>

\* governance.queueNotification(notification, deliverFn): the notification is
\* pushed and the timer restarted
QueueNotification(notification) ==
    /\ pendingNotifications' = Append(pendingNotifications,
                                      [content |-> notification, queuedAt |-> now])
    /\ batchTimer' = [set |-> TRUE, deadline |-> now + BatchWindow]
    /\ queuedLog' = Append(queuedLog, [content |-> notification, queuedAt |-> now])
    /\ UNCHANGED <<now, steps, rateLimiter, queuedIntent, recentTopics, delivered,
                   quietCall, govOp, consumedAt, recordedAt, notGovernanceVars>>

\* The callback of the batch timer runs, no earlier than its deadline: the
\* pending notifications go to deliverFn as one batch
BatchTimerFires ==
    /\ batchTimer.set
    /\ now >= batchTimer.deadline
    /\ pendingNotifications' = <<>>
    /\ batchTimer' = NoTimer
    /\ delivered' = IF Len(pendingNotifications) > 0
                    THEN Append(delivered, [batch |-> pendingNotifications, at |-> now,
                                            upTo |-> Len(queuedLog)])
                    ELSE delivered
    /\ UNCHANGED <<now, steps, rateLimiter, queuedIntent, recentTopics, quietCall, govOp,
                   consumedAt, recordedAt, queuedLog, notGovernanceVars>>

\* The clock runs on while the batch timer is pending
Elapse(d) ==
    /\ batchTimer.set
    /\ now < batchTimer.deadline
    /\ now' = now + d
    /\ UNCHANGED <<steps, governanceVars, notGovernanceVars>>

\* ------------------------------------------------------------------------
\* Identity: tensions, resolutions and growth vectors in the memory API
\* ------------------------------------------------------------------------
\* this.principles as loadPrinciplesFromSoulMd builds them from the entries
\*   - **Integrity**: verify claims before asserting
\*   - **Courage**: face truth directly
\* (the name and the first five words longer than 3 characters; the negative
\* patterns of negativeMap)
Principles ==
    <<[name |-> "integrity",
       positivePatterns |-> {<<105, 110, 116, 101, 103, 114, 105, 116, 121>>,
                               <<118, 101, 114, 105, 102, 121>>,
                               <<99, 108, 97, 105, 109, 115>>,
                               <<98, 101, 102, 111, 114, 101>>,
                               <<97, 115, 115, 101, 114, 116, 105, 110, 103>>},
       negativePatterns |-> {<<97, 118, 111, 105, 100>>,
                               <<104, 101, 100, 103, 101>>,
                               <<97, 115, 115, 117, 109, 101>>,
                               <<102, 97, 98, 114, 105, 99, 97, 116, 101>>},
       groundingRequired |-> TRUE],
      [name |-> "courage",
       positivePatterns |-> {<<99, 111, 117, 114, 97, 103, 101>>,
                               <<102, 97, 99, 101>>,
                               <<116, 114, 117, 116, 104>>,
                               <<100, 105, 114, 101, 99, 116, 108, 121>>},
       negativePatterns |-> {<<97, 118, 111, 105, 100>>,
                               <<115, 97, 102, 101>>,
                               <<104, 101, 100, 103, 101>>,
                               <<105, 103, 110, 111, 114, 101>>},
       groundingRequired |-> TRUE]>>

\* 'ground', 'anchor', 'principle', 'aligned', 'consistent', 'core',
\* 'foundation', 'rooted'
GroundingPatterns ==
    {<<103, 114, 111, 117, 110, 100>>,
     <<97, 110, 99, 104, 111, 114>>,
     <<112, 114, 105, 110, 99, 105, 112, 108, 101>>,
     <<97, 108, 105, 103, 110, 101, 100>>,
     <<99, 111, 110, 115, 105, 115, 116, 101, 110, 116>>,
     <<99, 111, 114, 101>>,
     <<102, 111, 117, 110, 100, 97, 116, 105, 111, 110>>,
     <<114, 111, 111, 116, 101, 100>>}

\* 'i can', "i'm able to", 'i have access', 'i could'
ClaimPatterns ==
    {<<105, 32, 99, 97, 110>>,
     <<105, 39, 109, 32, 97, 98, 108, 101, 32, 116, 111>>,
     <<105, 32, 104, 97, 118, 101, 32, 97, 99, 99, 101, 115, 115>>,
     <<105, 32, 99, 111, 117, 108, 100>>}

\* 'here is', 'done', 'completed', 'created', 'result:', 'output:'
DemoPatterns ==
    {<<104, 101, 114, 101, 32, 105, 115>>,
     <<100, 111, 110, 101>>,
     <<99, 111, 109, 112, 108, 101, 116, 101, 100>>,
     <<99, 114, 101, 97, 116, 101, 100>>,
     <<114, 101, 115, 117, 108, 116, 58>>,
     <<111, 117, 116, 112, 117, 116, 58>>}

\* patterns.some(p => text.includes(p))
IncludesSome(text, patterns) == \E p \in patterns : Includes(text, p)

\* isPrincipleAlignedResolution(resolutionText)
IsPrincipleAlignedResolution(resolutionText) ==
    IF resolutionText = <<>> \/ Len(Principles) = 0 THEN FALSE
    ELSE LET text == ToLowerCase(resolutionText)
             anyAligned == \E i \in 1..Len(Principles) :
                              /\ IncludesSome(text, Principles[i].positivePatterns)
                              /\ ~IncludesSome(text, Principles[i].negativePatterns)
             isGrounded == IncludesSome(text, GroundingPatterns)
             anyRequiresGrounding == \E i \in 1..Len(Principles) :
                                        Principles[i].groundingRequired
         IN  IF anyAligned /\ anyRequiresGrounding /\ ~isGrounded THEN FALSE
             ELSE anyAligned

\* _identifyPrimaryPrinciple(responseText): the first principle with the most
\* positive patterns in the text, 'general' when none has any
IdentifyPrimaryPrinciple(responseText) ==
    LET text == ToLowerCase(responseText)
        score(i) == Cardinality({q \in Principles[i].positivePatterns : Includes(text, q)})
        best == {i \in 1..Len(Principles) :
                    /\ score(i) > 0
                    /\ \A j \in 1..Len(Principles) :
                          score(j) < score(i) \/ (score(j) = score(i) /\ j >= i)}
    IN  IF best = {} THEN "general" ELSE Principles[CHOOSE i \in best : TRUE].name

\* A tension of detectTensions; crypto.randomUUID() is the number of the tension
Tension(id, type, entropyScore, time) ==
    [id |-> id, type |-> type, entropyScore |-> entropyScore, detectedAt |-> time,
     status |-> "active"]

\* detectTensions(userMessage, responseText, entropyScore) at clock time `time`,
\* after `created` tensions were made (scores in hundredths)
DetectTensions(userMessage, responseText, entropyScore, time, created) ==
    LET userLower == ToLowerCase(userMessage)
        responseLower == ToLowerCase(responseText)
        correction == IF entropyScore > 40 /\ IncludesSome(userLower, CorrectionPatterns)
                      THEN <<Tension(created + 1, "user_correction", entropyScore, time)>>
                      ELSE <<>>
        hasClaim == IncludesSome(responseLower, ClaimPatterns)
        hasDemo == IncludesSome(responseLower, DemoPatterns)
        gap == IF hasClaim /\ ~hasDemo /\ entropyScore > 30
               THEN <<Tension(created + Len(correction) + 1, "capability_gap",
                              entropyScore, time)>>
               ELSE <<>>
        found == correction \o gap
    IN  IF entropyScore > 70 /\ Len(found) = 0
        THEN <<Tension(created + 1, "entropy_spike", entropyScore, time)>>
        ELSE found

\* The tensions a resolution may take: active and not older than 30 minutes
ResolvableAt(tensions, time) ==
    {i \in 1..Len(tensions) :
        /\ tensions[i].status = "active"
        /\ ~(time - tensions[i].detectedAt > 30 * 60)}

\* The oldest resolvable tension is the one resolved
TryResolveOldest(tensions, time) ==
    LET open == ResolvableAt(tensions, time)
    IN  IF open = {} THEN [tensions |-> tensions, resolved |-> NULL]
        ELSE LET at == CHOOSE i \in open : \A j \in open : j >= i
             IN  [tensions |-> [tensions EXCEPT ![at].status = "resolved"],
                  resolved |-> tensions[at].id]

\* _tryResolveTensions: walks the list from its end and resolves the first
\* resolvable tension it meets; `resolved` is its id, NULL when there is none
TryResolveTensions(tensions, time) ==
    LET open == ResolvableAt(tensions, time)
    IN  IF open = {} THEN [tensions |-> tensions, resolved |-> NULL]
        ELSE LET at == CHOOSE i \in open : \A j \in open : j <= i
             IN  [tensions |-> [tensions EXCEPT ![at].status = "resolved"],
                  resolved |-> tensions[at].id]

\* _expireTensions at clock time `time`
ExpireTensions(tensions, time) ==
    SelectSeq(tensions, LAMBDA t : t.detectedAt > time - 7 * Day)

\* An entry handed to memoryApi.store: its metadata
MemoryEntry(type, status, id, principle) ==
    [type |-> type, status |-> status, id |-> id, principle |-> principle,
     decision |-> "", reason |-> <<>>]

\* addTension for each of the tensions, in order
TensionEntries(tensions) ==
    [i \in 1..Len(tensions) |-> MemoryEntry("tension", "active", tensions[i].id, "")]

\* resolveTension(tensionId, resolution, memoryApi): the resolved mark, and a
\* growth vector when the resolution text is principle-aligned
ResolveTensionEntries(tensionId, resolutionText, principle) ==
    <<MemoryEntry("tension", "resolved", tensionId, "")>>
        \o (IF IsPrincipleAlignedResolution(resolutionText)
            THEN <<MemoryEntry("growth_vector", "", NULL, principle)>>
            ELSE <<>>)

\* Number.prototype.toFixed(2) of a score below 10, in hundredths
ToFixed2(score) ==
    <<48 + (score \div 100), 46, 48 + ((score \div 10) % 10), 48 + (score % 10)>>

\* "Verify before asserting: "
TextVerifyPrefix == <<86, 101, 114, 105, 102, 121, 32, 98, 101, 102, 111, 114, 101, 32, 97, 115, 115, 101, 114, 116, 105, 110, 103, 58, 32>>

\* "When claiming capability, demonstrate immediately"
TextDemonstrate == <<87, 104, 101, 110, 32, 99, 108, 97, 105, 109, 105, 110, 103, 32, 99, 97, 112, 97, 98, 105, 108, 105, 116, 121, 44, 32, 100, 101, 109, 111, 110, 115, 116, 114, 97, 116, 101, 32, 105, 109, 109, 101, 100, 105, 97, 116, 101, 108, 121>>

\* "Elevated entropy ("
TextSpikePrefix == <<69, 108, 101, 118, 97, 116, 101, 100, 32, 101, 110, 116, 114, 111, 112, 121, 32, 40>>

\* ") may signal new territory — attend to it"
TextSpikeSuffix == <<41, 32, 109, 97, 121, 32, 115, 105, 103, 110, 97, 108, 32, 110, 101, 119, 32, 116, 101, 114, 114, 105, 116, 111, 114, 121, 32, 8212, 32, 97, 116, 116, 101, 110, 100, 32, 116, 111, 32, 105, 116>>

\* _createCandidateVector(userMessage, responseText, entropyScore, tensions,
\* vectorStore): the candidate passed to addCandidate at clock time `time`
CreateCandidateOfTurn(userMessage, entropyScore, tensions, time) ==
    LET type == IF Len(tensions) > 0 THEN tensions[1].type ELSE "auto_detected"
        entropySource == IF Len(tensions) > 0 THEN tensions[1].type ELSE "elevated_entropy"
        userShort == Take(userMessage, 100)
        hypothesis == IF type = "user_correction" THEN TextVerifyPrefix \o userShort
                      ELSE IF type = "capability_gap" THEN TextDemonstrate
                      ELSE IF type = "entropy_spike"
                           THEN TextSpikePrefix \o ToFixed2(entropyScore) \o TextSpikeSuffix
                      ELSE TextReviewPrefix \o userShort
    IN  [Candidate("gv-auto-" \o ToString(time), type, hypothesis, userShort)
            EXCEPT !.detected = time, !.entropy_source = entropySource]

\* processTurn(userMessage, responseText, entropyScore, memoryApi, vectorStore)
\* on the list `tensions` at clock time `time`: the tensions it detects, the
\* list after the resolution step and after the expiry, the entries it hands
\* to the memory API and the candidate, if any, it passes to addCandidate
ProcessTurnResult(tensions, created, userMessage, responseText, entropyScore, time) ==
    IF Len(Principles) = 0
    THEN [detected |-> <<>>, aligned |-> FALSE, resolved |-> tensions, tensions |-> tensions,
          stores |-> <<>>, candidates |-> <<>>]
    ELSE LET detected == DetectTensions(userMessage, responseText, entropyScore, time, created)
             all == tensions \o detected
             aligned == IsPrincipleAlignedResolution(responseText)
             principle == IdentifyPrimaryPrinciple(responseText)
             res == IF aligned THEN TryResolveTensions(all, time)
                    ELSE [tensions |-> all, resolved |-> NULL]
             resolution == IF res.resolved = NULL THEN <<>>
                           ELSE ResolveTensionEntries(res.resolved, responseText, principle)
             stores == TensionEntries(detected)
                         \o (IF aligned
                             THEN resolution
                                    \o <<MemoryEntry("growth_vector", "", NULL, principle)>>
                             ELSE <<>>)
         IN  [detected |-> detected, aligned |-> aligned, resolved |-> res.tensions,
              tensions |-> ExpireTensions(res.tensions, time), stores |-> stores,
              candidates |-> IF entropyScore > CandidateEntropyFloor
                             THEN <<CreateCandidateOfTurn(userMessage, entropyScore,
                                                          detected, time)>>
                             ELSE <<>>]

\* identity.processTurn of an agent_end, with or without event.memory
ProcessTurn(userMessage, responseText, entropyScore, memoryApi) ==
    /\ steps' = steps + 1
    /\ \E r \in {ProcessTurnResult(activeTensions, identityOp.created, userMessage,
                                   responseText, entropyScore, now)} :
          /\ activeTensions' = r.tensions
          /\ memoryStore' = IF memoryApi THEN memoryStore \o r.stores ELSE memoryStore
          /\ identityOp' = [name |-> "processTurn", before |-> activeTensions,
                            detected |-> r.detected, resolved |-> r.resolved,
                            response |-> responseText, memoryApi |-> memoryApi, at |-> now,
                            stored |-> Len(memoryStore),
                            created |-> identityOp.created + Len(r.detected)]
          /\ gvFile' = IF r.candidates = <<>> THEN gvFile
                       ELSE [exists |-> TRUE,
                             content |-> AddCandidateResult(ReadFileRaw(gvFile),
                                                            r.candidates[1], now).data]
    /\ UNCHANGED <<now, heartbeatOp, cache, cacheChecksum, cacheTimestamp, feedback,
                   rankResult, rankScored, rankPath, rankArgs, storeOp, feedbackLog,
                   entropyVars, loopVars, detectorVars, hookVars, scorerVars,
                   governanceVars>>

\* ------------------------------------------------------------------------
\* Heartbeat: the decision log in the memory API
\* ------------------------------------------------------------------------
\* String.prototype.toUpperCase, on the letters a-z
ToUpperCase(text) ==
    [i \in 1..Len(text) |-> IF text[i] >= 97 /\ text[i] <= 122 THEN text[i] - 32 ELSE text[i]]

\* text.startsWith(prefix)
StartsWith(text, prefix) ==
    Len(text) >= Len(prefix) /\ SubSeq(text, 1, Len(prefix)) = prefix

\* the characters of text from position a to position b, empty when the text
\* ends before b
Slice(text, a, b) == IF b > Len(text) THEN <<>> ELSE SubSeq(text, a, b)

\* "decision:"
TextDecisionLabel == <<100, 101, 99, 105, 115, 105, 111, 110, 58>>

\* GROUND|TEND|SURFACE|INTEGRATE, lower-cased (the expression ignores case)
DecisionWords ==
    <<[name |-> "GROUND", text |-> <<103, 114, 111, 117, 110, 100>>],
      [name |-> "TEND", text |-> <<116, 101, 110, 100>>],
      [name |-> "SURFACE", text |-> <<115, 117, 114, 102, 97, 99, 101>>],
      [name |-> "INTEGRATE", text |-> <<105, 110, 116, 101, 103, 114, 97, 116, 101>>]>>

\* em dash and hyphen
DecisionDashes == {8212, 45}

\* the characters `.` does not match: \n, \r, U+2028, U+2029
LineTerminators == {10, 13, 8232, 8233}

\* \s of a regular expression, on the characters of the texts
RegexSpace == {32, 9, 10, 11, 12, 13, 160}

\* the position after the \s* that starts at position k
SkipSpace(text, k) ==
    CHOOSE e \in k..(Len(text) + 1) :
        /\ \A i \in k..(e - 1) : text[i] \in RegexSpace
        /\ e = Len(text) + 1 \/ text[e] \notin RegexSpace

\* \s*(.+?)(?:\n|$) from position k: the reason starts after as many spaces as
\* leave a match, holds no line terminator and runs up to a \n or the end
ReasonFrom(text, k) ==
    LET run(b) == CHOOSE e \in b..(Len(text) + 1) :
                      /\ \A i \in b..(e - 1) : text[i] \notin LineTerminators
                      /\ e = Len(text) + 1 \/ text[e] \in LineTerminators
        ok(b) == /\ b <= Len(text)
                 /\ \A i \in k..(b - 1) : text[i] \in RegexSpace
                 /\ run(b) > b
                 /\ run(b) = Len(text) + 1 \/ text[run(b)] = 10
        starts == {b \in k..Len(text) : ok(b)}
    IN  IF starts = {} THEN [found |-> FALSE, reason |-> <<>>]
        ELSE LET b == CHOOSE x \in starts : \A y \in starts : y <= x
             IN  [found |-> TRUE, reason |-> Trim(SubSeq(text, b, run(b) - 1))]

\* The match of /DECISION:\s*(GROUND|TEND|SURFACE|INTEGRATE)\s*[—\-]\s*(.+?)(?:\n|$)/i
\* that starts at position i
DecisionAt(text, i) ==
    LET lower == ToLowerCase(text)
        label == i + Len(TextDecisionLabel)
        word == SkipSpace(text, label)
        words == {w \in 1..Len(DecisionWords) :
                     Slice(lower, word, word + Len(DecisionWords[w].text) - 1)
                        = DecisionWords[w].text}
    IN  IF Slice(lower, i, label - 1) # TextDecisionLabel \/ words = {}
        THEN [found |-> FALSE, decision |-> "", reason |-> <<>>]
        ELSE LET w == CHOOSE x \in words : TRUE
                 dash == SkipSpace(text, word + Len(DecisionWords[w].text))
             IN  IF dash > Len(text) \/ text[dash] \notin DecisionDashes
                 THEN [found |-> FALSE, decision |-> "", reason |-> <<>>]
                 ELSE LET r == ReasonFrom(text, dash + 1)
                      IN  [found |-> r.found,
                           decision |-> IF r.found THEN DecisionWords[w].name ELSE "",
                           reason |-> r.reason]

\* parseDecision(responseText): the leftmost match, found FALSE for null
ParseDecision(responseText) ==
    LET at == {i \in 1..Len(responseText) : DecisionAt(responseText, i).found}
    IN  IF at = {} THEN [found |-> FALSE, decision |-> "", reason |-> <<>>]
        ELSE DecisionAt(responseText, CHOOSE i \in at : \A j \in at : i <= j)

\* 'decision: ground', 'ground stable', 'continuity maintained',
\* 'presence maintained', 'nothing requires attention'
GroundStablePhrases ==
    {<<100, 101, 99, 105, 115, 105, 111, 110, 58, 32, 103, 114, 111, 117, 110, 100>>,
     <<103, 114, 111, 117, 110, 100, 32, 115, 116, 97, 98, 108, 101>>,
     <<99, 111, 110, 116, 105, 110, 117, 105, 116, 121, 32, 109, 97, 105, 110, 116, 97, 105, 110, 101, 100>>,
     <<112, 114, 101, 115, 101, 110, 99, 101, 32, 109, 97, 105, 110, 116, 97, 105, 110, 101, 100>>,
     <<110, 111, 116, 104, 105, 110, 103, 32, 114, 101, 113, 117, 105, 114, 101, 115, 32, 97, 116, 116, 101, 110, 116, 105, 111, 110>>}

\* "HEARTBEAT_OK"
TextHeartbeatOk == <<72, 69, 65, 82, 84, 66, 69, 65, 84, 95, 79, 75>>

\* isGroundStable(responseText)
IsGroundStable(responseText) ==
    IF responseText = <<>> THEN FALSE
    ELSE \/ IncludesSome(ToLowerCase(responseText), GroundStablePhrases)
         \/ StartsWith(ToUpperCase(Trim(responseText)), TextHeartbeatOk)

\* logDecision(responseText, memoryApi): the entries it hands to the memory API
\* and whether it rejects. `parsed` is declared const, so the assignment of the
\* GROUND fallback throws a TypeError before anything is stored.
LogDecisionResult(responseText, memoryApi) ==
    IF ~memoryApi THEN [stores |-> <<>>, raised |-> FALSE]
    ELSE LET parsed == ParseDecision(responseText)
         IN  IF parsed.found
             THEN [stores |-> <<[MemoryEntry("heartbeat_decision", "", NULL, "") EXCEPT
                                   !.decision = parsed.decision,
                                   !.reason = parsed.reason]>>,
                   raised |-> FALSE]
             ELSE IF IsGroundStable(responseText)
             THEN [stores |-> <<>>, raised |-> TRUE]
             ELSE [stores |-> <<>>, raised |-> FALSE]

\* heartbeat.logDecision of an agent_end whose turn is a heartbeat
LogDecision(responseText, memoryApi) ==
    /\ steps' = steps + 1
    /\ \E r \in {LogDecisionResult(responseText, memoryApi)} :
          /\ memoryStore' = memoryStore \o r.stores
          /\ heartbeatOp' = [name |-> "logDecision", response |-> responseText,
                             memoryApi |-> memoryApi, stored |-> Len(memoryStore),
                             raised |-> r.raised]
    /\ UNCHANGED <<now, activeTensions, identityOp, notIdentityVars>>

\* ------------------------------------------------------------------------
\* Specifications
\* ------------------------------------------------------------------------
InitSustained ==
    /\ now = 0
    /\ steps = 0
    /\ InitEntropy
    /\ InitDetectors
    /\ InitIdentity
    /\ InitGovernance
    /\ InitHooks
    /\ InitScorer
    /\ InitLoop
    /\ InitStoreIdle

TrackStep == \E score \in Scores, gap \in {0, 1} : TrackSustainedEntropy(score, gap)

ClockStep == \E d \in AdvanceSteps : AdvanceClock(d)

NextSustained ==
    \/ TrackStep
    \/ ClockStep

SpecSustained == InitSustained /\ [][NextSustained]_vars

InitLoopDetection ==
    /\ steps = 0
    /\ InitEntropy
    /\ InitDetectors
    /\ InitIdentity
    /\ InitGovernance
    /\ InitHooks
    /\ InitScorer
    /\ criticalThreshold = 100
    /\ InitLoopSession
    /\ InitStoreIdle

CallStep ==
    \E toolName \in Tools, output \in Outputs, params \in ParamSets :
        RecordAndCheck(toolName, output, params)

NextLoop ==
    \/ CallStep
    \/ Reset

SpecLoop == InitLoopDetection /\ [][NextLoop]_vars

\* getRelevantVectors over a store whose file and feedback were written earlier
InitRank ==
    /\ now = RankClockStart
    /\ steps = 0
    /\ InitEntropy
    /\ InitDetectors
    /\ InitIdentity
    /\ InitGovernance
    /\ InitHooks
    /\ InitScorer
    /\ criticalThreshold = 100
    /\ InitLoop
    /\ InitStore
    /\ gvFile \in Files
    /\ feedback \in Feedbacks
    /\ feedbackLog = [id \in VectorIds |-> feedback[id].entries]

RankStep ==
    /\ steps < MaxRankCalls
    /\ \E userMessage \in Messages, entropyScore \in EntropyScores, returnScores \in BOOLEAN :
          GetRelevantVectors(userMessage, entropyScore, returnScores)

NextRank == RankStep

SpecRank == InitRank /\ [][NextRank]_vars

\* addCandidate, validateVector, runLifecycle and getRelevantVectors on one store
InitLifecycle ==
    /\ now = RankClockStart
    /\ steps = 0
    /\ InitEntropy
    /\ InitDetectors
    /\ InitIdentity
    /\ InitGovernance
    /\ InitHooks
    /\ InitScorer
    /\ criticalThreshold = 100
    /\ InitLoop
    /\ InitStore
    /\ gvFile \in LifecycleFiles
    /\ feedback = [id \in VectorIds |-> NoFeedback]
    /\ feedbackLog = [id \in VectorIds |-> <<>>]

AddCandidateStep ==
    /\ steps < MaxStoreSteps
    /\ \E candidate \in CandidateInputs : AddCandidate(candidate)

ValidateStep ==
    /\ steps < MaxStoreSteps
    /\ \E id \in ValidateIds, note \in ValidateNotes : ValidateVector(id, note)

LifecycleStep ==
    /\ steps < MaxStoreSteps
    /\ RunLifecycle

InjectStep ==
    /\ steps < MaxStoreSteps
    /\ \E userMessage \in {NoText, TextFixTheToolLoop} :
          GetRelevantVectors(userMessage, 80, TRUE)

NextLifecycle ==
    \/ AddCandidateStep
    \/ ValidateStep
    \/ LifecycleStep
    \/ InjectStep

SpecLifecycle == InitLifecycle /\ [][NextLifecycle]_vars

\* loadFile while the file is written by its owner and by addCandidate
InitCache ==
    /\ now = RankClockStart
    /\ steps = 0
    /\ InitEntropy
    /\ InitDetectors
    /\ InitIdentity
    /\ InitGovernance
    /\ InitHooks
    /\ InitScorer
    /\ criticalThreshold = 100
    /\ InitLoop
    /\ InitStore
    /\ gvFile \in {[exists |-> FALSE, content |-> EmptyFile]}
                  \cup {[exists |-> TRUE, content |-> c] : c \in ExternalContents}
    /\ feedback = [id \in VectorIds |-> NoFeedback]
    /\ feedbackLog = [id \in VectorIds |-> <<>>]

LoadStep ==
    /\ steps < MaxCacheSteps
    /\ LoadFileCall

ExternalWriteStep ==
    /\ steps < MaxCacheSteps
    /\ \E content \in ExternalContents : ExternalWrite(content)

EngineWriteStep ==
    /\ steps < MaxCacheSteps
    /\ \E candidate \in CandidateInputs : AddCandidate(candidate)

CacheClockStep ==
    /\ steps < MaxCacheSteps
    /\ \E d \in CacheClockSteps : PassTime(d)

NextCache ==
    \/ LoadStep
    \/ ExternalWriteStep
    \/ EngineWriteStep
    \/ CacheClockStep

SpecCache == InitCache /\ [][NextCache]_vars

\* What countMetaConcepts returns for a turn (0 to 11 with the default list)
MetaCounts == {0, 2, 3, 5}

MaxMetaCalls == 7

\* isRecursiveMetaDiscussion turn after turn
InitMeta ==
    /\ now = 0
    /\ steps = 0
    /\ criticalThreshold = 100
    /\ InitEntropy
    /\ InitDetectors
    /\ InitIdentity
    /\ InitGovernance
    /\ InitHooks
    /\ InitScorer
    /\ InitLoop
    /\ InitStoreIdle

MetaStep ==
    /\ steps < MaxMetaCalls
    /\ \E currentCount \in MetaCounts : IsRecursiveMetaDiscussion(currentCount)

NextMeta == MetaStep

SpecMeta == InitMeta /\ [][NextMeta]_vars

\* The user messages of the turns: one that matches the file's vector, one that
\* does not
HookMessages == {TextFixTheToolLoop, TextUnrelated}

\* What a turn's end observes: the score calculateEntropyScore returns
\* (hundredths) and the exchange's meta-concept count
TurnObservations == {[score |-> 30, meta |-> 0], [score |-> 70, meta |-> 3]}

\* The write that fails during an agent_end, if any
WriteFailures == {"none", "log", "history", "candidate", "feedback"}

MaxHookSteps == 5

MaxToolCalls == 1

\* Two agents' hooks on a growth-vectors.json holding one validated vector
InitHooksRun ==
    /\ now = RankClockStart
    /\ steps = 0
    /\ InitEntropy
    /\ criticalThreshold = 100
    /\ InitDetectors
    /\ InitIdentity
    /\ InitGovernance
    /\ InitHooks
    /\ InitScorer
    /\ InitLoop
    /\ InitStore
    /\ gvFile = [exists |-> TRUE,
                 content |-> [vectors |-> <<VectorPool[2]>>, candidates |-> <<>>,
                              queue |-> EmptyFile.queue]]
    /\ feedback = [id \in VectorIds |-> NoFeedback]
    /\ feedbackLog = [id \in VectorIds |-> <<>>]

StartStep ==
    /\ steps < MaxHookSteps
    /\ \E a \in Agents, userMessage \in HookMessages : BeforeAgentStart(a, userMessage)

EndBeginStep ==
    /\ steps < MaxHookSteps
    /\ \E a \in Agents, obs \in TurnObservations, fail \in WriteFailures :
          AgentEndBegin(a, obs, fail)

EndEarlyReturnStep ==
    /\ steps < MaxHookSteps
    /\ \E a \in Agents : AgentEndEarlyReturn(a)

EndProcessTurnStep ==
    /\ steps < MaxHookSteps
    /\ \E a \in Agents : AgentEndProcessTurn(a)

EndCloseStep ==
    /\ steps < MaxHookSteps
    /\ \E a \in Agents : AgentEndClose(a)

ToolStep ==
    /\ steps < MaxHookSteps
    /\ \E a \in Agents :
          /\ Len(agentStates[a].toolHistory) < MaxToolCalls
          /\ AfterToolCall(a, "Read", OutAZ, [NoParams EXCEPT !.path = "/a"])

CompactionStep ==
    /\ steps < MaxHookSteps
    /\ \E a \in Agents : BeforeCompaction(a)

NextHooks ==
    \/ StartStep
    \/ EndBeginStep
    \/ EndEarlyReturnStep
    \/ EndProcessTurnStep
    \/ EndCloseStep
    \/ ToolStep
    \/ CompactionStep

SpecHooks == InitHooksRun /\ [][NextHooks]_vars

\* User messages, each with the signals it carries: a correction phrase, an
\* emotional phrase, and its number of novel-concept matches
UserTexts ==
    {\* "hello there"
     [text |-> <<104, 101, 108, 108, 111, 32, 116, 104, 101, 114, 101>>,
      correction |-> FALSE, emotional |-> FALSE, novel |-> 0],
     \* "actually that's wrong"
     [text |-> <<97, 99, 116, 117, 97, 108, 108, 121, 32, 116, 104, 97, 116, 39, 115, 32, 119, 114, 111, 110, 103>>,
      correction |-> TRUE, emotional |-> FALSE, novel |-> 0],
     \* "I am impressed"
     [text |-> <<73, 32, 97, 109, 32, 105, 109, 112, 114, 101, 115, 115, 101, 100>>,
      correction |-> FALSE, emotional |-> TRUE, novel |-> 0],
     \* "Quantum architecture: a paradigm shift"
     [text |-> <<81, 117, 97, 110, 116, 117, 109, 32, 97, 114, 99, 104, 105, 116, 101, 99, 116, 117, 114, 101, 58, 32, 97, 32, 112, 97, 114, 97, 100, 105, 103, 109, 32, 115, 104, 105, 102, 116>>,
      correction |-> FALSE, emotional |-> FALSE, novel |-> 3],
     \* "technically amazing"
     [text |-> <<116, 101, 99, 104, 110, 105, 99, 97, 108, 108, 121, 32, 97, 109, 97, 122, 105, 110, 103>>,
      correction |-> TRUE, emotional |-> TRUE, novel |-> 0]}

\* Responses, each with the signals it carries: a paradox phrase, a realization
\* phrase as the scorer looks for it (the response is lower-cased, the pattern
\* 'I realize' is not), a reflective phrase, and its novel-concept matches
ResponseTexts ==
    {\* "ok"
     [text |-> <<111, 107>>,
      paradox |-> FALSE, realization |-> FALSE, reflective |-> FALSE, novel |-> 0],
     \* "Both are true"
     [text |-> <<66, 111, 116, 104, 32, 97, 114, 101, 32, 116, 114, 117, 101>>,
      paradox |-> TRUE, realization |-> FALSE, reflective |-> FALSE, novel |-> 0],
     \* "I recognized it"
     [text |-> <<73, 32, 114, 101, 99, 111, 103, 110, 105, 122, 101, 100, 32, 105, 116>>,
      paradox |-> FALSE, realization |-> TRUE, reflective |-> FALSE, novel |-> 0],
     \* "It is settling now"
     [text |-> <<73, 116, 32, 105, 115, 32, 115, 101, 116, 116, 108, 105, 110, 103, 32, 110, 111, 119>>,
      paradox |-> FALSE, realization |-> FALSE, reflective |-> TRUE, novel |-> 0],
     \* "the architecture"
     [text |-> <<116, 104, 101, 32, 97, 114, 99, 104, 105, 116, 101, 99, 116, 117, 114, 101>>,
      paradox |-> FALSE, realization |-> FALSE, reflective |-> FALSE, novel |-> 1],
     \* "I realize it now"
     [text |-> <<73, 32, 114, 101, 97, 108, 105, 122, 101, 32, 105, 116, 32, 110, 111, 119>>,
      paradox |-> FALSE, realization |-> FALSE, reflective |-> FALSE, novel |-> 0]}

NoDetection == [temporalMismatch |-> FALSE, qualityDecay |-> FALSE, recursiveMetaBonus |-> 0]

\* The detector results passed to the scorer
DetectorResultSets ==
    {NoDetection,
     [temporalMismatch |-> FALSE, qualityDecay |-> TRUE, recursiveMetaBonus |-> 15],
     [temporalMismatch |-> TRUE, qualityDecay |-> TRUE, recursiveMetaBonus |-> 45]}

\* context.quality; "" for a context without quality
Contexts == {[quality |-> ""], [quality |-> "excellent"], [quality |-> "poor"]}

Hour == 60 * 60

\* The clock time the scoring runs start at
ScoreClockStart == Day

HistoryEntry(timestamp, entropy) ==
    [timestamp |-> timestamp, entropy |-> entropy, metaConceptCount |-> 0]

\* entropy-history.json as _loadHistory finds it: absent, one high-entropy
\* observation an hour old, the same 7 hours old
ScoreHistories ==
    {<<>>,
     <<HistoryEntry(ScoreClockStart - Hour, 70)>>,
     <<HistoryEntry(ScoreClockStart - 7 * Hour, 70)>>}

MaxScoreCalls == 1

\* calculateEntropyScore on every combination of signals: the arguments of the
\* calls are drawn here and wait in scoreCall, whose time is NULL until the
\* first call
InitScore ==
    /\ now = ScoreClockStart
    /\ steps = 0
    /\ InitEntropy
    /\ criticalThreshold = 100
    /\ InitDetectors
    /\ InitIdentity
    /\ InitGovernance
    /\ InitHooks
    /\ InitLoop
    /\ InitStoreIdle
    /\ recentHistory \in ScoreHistories
    /\ lastScore = 0
    /\ logFile = <<>>
    /\ \E u \in UserTexts, r \in ResponseTexts, d \in DetectorResultSets, c \in Contexts :
          scoreCall = [NoScoreCall EXCEPT !.userMessage = u.text, !.responseText = r.text,
                                          !.detectorResults = d, !.context = c]
    /\ prevScoreCall = NoScoreCall
    /\ observed = <<>>
    /\ logOp = [name |-> "none", before |-> <<>>, historyBefore |-> <<>>]

ScoreStep ==
    /\ steps < MaxScoreCalls
    /\ CalculateEntropyScore(scoreCall.userMessage, scoreCall.responseText,
                             scoreCall.detectorResults, scoreCall.context)

NextScore == ScoreStep

SpecScore == InitScore /\ [][NextScore]_vars

\* The exchanges of the quiet-integration runs: a calm or a high-entropy user
\* message ("hello there", "technically amazing"), a plain or a reflective
\* response ("ok", "It is settling now")
QuietUsers == {u \in UserTexts : u.novel = 0 /\ (u.correction <=> u.emotional)}

QuietResponses == {r \in ResponseTexts : r.reflective \/ Len(r.text) = 2}

\* The ring buffer the run starts with: empty, or full with a high-entropy
\* observation as its oldest entry, all logged within the last hour
QuietHistories ==
    {<<>>,
     <<HistoryEntry(ScoreClockStart - Hour, 70),
       HistoryEntry(ScoreClockStart - 50 * 60, 0),
       HistoryEntry(ScoreClockStart - 40 * 60, 30),
       HistoryEntry(ScoreClockStart - 30 * 60, 0),
       HistoryEntry(ScoreClockStart - 20 * 60, 0)>>}

\* Two hours and five hours pass between calls
QuietClockSteps == {2 * Hour, 5 * Hour}

MaxQuietSteps == 4

\* Turn ends, scorings and the clock on a ring buffer loaded from the file
InitQuiet ==
    /\ now = ScoreClockStart
    /\ steps = 0
    /\ InitEntropy
    /\ criticalThreshold = 100
    /\ InitDetectors
    /\ InitIdentity
    /\ InitGovernance
    /\ InitHooks
    /\ InitLoop
    /\ InitStoreIdle
    /\ recentHistory \in QuietHistories
    /\ lastScore = 0
    /\ logFile = <<>>
    /\ scoreCall = NoScoreCall
    /\ prevScoreCall = NoScoreCall
    /\ observed = [i \in 1..Len(recentHistory) |->
                      [timestamp |-> recentHistory[i].timestamp,
                       entropy |-> recentHistory[i].entropy]]
    /\ logOp = [name |-> "none", before |-> <<>>, historyBefore |-> <<>>]

TurnEndStep ==
    /\ steps < MaxQuietSteps
    /\ \E u \in QuietUsers, r \in QuietResponses : ScoreAndLog(u.text, r.text, NoDetection)

RescoreStep ==
    /\ steps < MaxQuietSteps
    /\ \E u \in QuietUsers, r \in QuietResponses :
          CalculateEntropyScore(u.text, r.text, NoDetection, [quality |-> ""])

QuietClockStep ==
    /\ steps < MaxQuietSteps
    /\ \E d \in QuietClockSteps : PassTime(d)

NextQuiet ==
    \/ TurnEndStep
    \/ RescoreStep
    \/ QuietClockStep

SpecQuiet == InitQuiet /\ [][NextQuiet]_vars

\* The records of a log file that earlier runs have written, oldest first
EarlierLog(n) == [i \in 1..n |-> [timestamp |-> i, score |-> 0]]

\* The log the run starts with: new, one record under its capacity, or full
InitialLogLengths == {0, LogCapacity - 1, LogCapacity}

\* The ring buffer the run starts with: empty, four entries, or full
LogHistories ==
    {<<>>,
     [i \in 1..4 |-> HistoryEntry(ScoreClockStart - (5 - i) * 60, 10 * i)],
     [i \in 1..5 |-> HistoryEntry(ScoreClockStart - (6 - i) * 60, 10 * i)]}

\* The observations logged: a score and the turn's meta-concept count
LogEntries == {[score |-> s, metaConceptCount |-> m] : s \in {30, 70}, m \in {0, 2}}

MaxLogSteps == 4

\* Observations logged on a log near its capacity
InitLog ==
    /\ now = ScoreClockStart
    /\ steps = 0
    /\ InitEntropy
    /\ criticalThreshold = 100
    /\ InitDetectors
    /\ InitIdentity
    /\ InitGovernance
    /\ InitHooks
    /\ InitLoop
    /\ InitStoreIdle
    /\ recentHistory \in LogHistories
    /\ lastScore = 0
    /\ \E n \in InitialLogLengths : logFile = EarlierLog(n)
    /\ scoreCall = NoScoreCall
    /\ prevScoreCall = NoScoreCall
    /\ observed = [i \in 1..Len(recentHistory) |->
                      [timestamp |-> recentHistory[i].timestamp,
                       entropy |-> recentHistory[i].entropy]]
    /\ logOp = [name |-> "none", before |-> <<>>, historyBefore |-> <<>>]

LogStep ==
    /\ steps < MaxLogSteps
    /\ \E entry \in LogEntries : LogObservation(entry)

LogClockStep ==
    /\ steps < MaxLogSteps
    /\ PassTime(60)

NextLog ==
    \/ LogStep
    \/ LogClockStep

SpecLog == InitLog /\ [][NextLog]_vars

\* The configurations of the limiter: none, and a small hourly and daily limit
RateConfigs ==
    {[investigationsPerHour |-> NULL, investigationsPerDay |-> NULL],
     [investigationsPerHour |-> 2, investigationsPerDay |-> 3]}

\* "api drift", "billing" and "cache keys"
IntentTopics ==
    {<<97, 112, 105, 32, 100, 114, 105, 102, 116>>,
     <<98, 105, 108, 108, 105, 110, 103>>,
     <<99, 97, 99, 104, 101, 32, 107, 101, 121, 115>>}

\* Half an hour and 23 hours pass between calls
RateClockSteps == {30 * 60, 23 * Hour}

MaxRateSteps == 8

\* Intents queued and consumed while the clock runs
InitRate ==
    /\ now = 0
    /\ steps = 0
    /\ InitEntropy
    /\ criticalThreshold = 100
    /\ InitDetectors
    /\ InitIdentity
    /\ InitHooks
    /\ InitScorer
    /\ InitLoop
    /\ InitStoreIdle
    /\ \E gov \in RateConfigs : NewGovernance(gov, 0)

QueueIntentStep ==
    /\ steps < MaxRateSteps
    /\ \E topic \in IntentTopics : QueueIntent([topic |-> topic, queued |-> TRUE])

ConsumeStep ==
    /\ steps < MaxRateSteps
    /\ ConsumeQueuedIntent

CanInvestigateStep ==
    /\ steps < MaxRateSteps
    /\ CanInvestigate

RateClockStep ==
    /\ steps < MaxRateSteps
    /\ \E d \in RateClockSteps : PassTime(d)

NextRate ==
    \/ QueueIntentStep
    \/ ConsumeStep
    \/ CanInvestigateStep
    \/ RateClockStep

SpecRate == InitRate /\ [][NextRate]_vars

\* The topics recorded: "Cache key drift in prod", and a missing topic
RecordedTopics ==
    {<<67, 97, 99, 104, 101, 32, 107, 101, 121, 32, 100, 114, 105, 102, 116, 32, 105, 110, 32, 112, 114, 111, 100>>,
     NoTopic}

\* The topics checked, each with the recorded key it is similar to, written down
\* by hand: the recorded topic itself, "  cache KEY drift in prod " (the same
\* once normalized), "cache key drift in prod now" (5 of 6 words shared),
\* "cache key drift in" (4 of 5 words shared, exactly 0.8), "billing" and a
\* missing topic
CheckedTopics ==
    {[text |-> <<67, 97, 99, 104, 101, 32, 107, 101, 121, 32, 100, 114, 105, 102, 116, 32, 105, 110, 32, 112, 114, 111, 100>>,
      like |-> <<99, 97, 99, 104, 101, 32, 107, 101, 121, 32, 100, 114, 105, 102, 116, 32, 105, 110, 32, 112, 114, 111, 100>>],
     [text |-> <<32, 32, 99, 97, 99, 104, 101, 32, 75, 69, 89, 32, 100, 114, 105, 102, 116, 32, 105, 110, 32, 112, 114, 111, 100, 32>>,
      like |-> <<99, 97, 99, 104, 101, 32, 107, 101, 121, 32, 100, 114, 105, 102, 116, 32, 105, 110, 32, 112, 114, 111, 100>>],
     [text |-> <<99, 97, 99, 104, 101, 32, 107, 101, 121, 32, 100, 114, 105, 102, 116, 32, 105, 110, 32, 112, 114, 111, 100, 32, 110, 111, 119>>,
      like |-> <<99, 97, 99, 104, 101, 32, 107, 101, 121, 32, 100, 114, 105, 102, 116, 32, 105, 110, 32, 112, 114, 111, 100>>],
     [text |-> <<99, 97, 99, 104, 101, 32, 107, 101, 121, 32, 100, 114, 105, 102, 116, 32, 105, 110>>,
      like |-> NoTopic],
     [text |-> <<98, 105, 108, 108, 105, 110, 103>>,
      like |-> NoTopic],
     [text |-> NoTopic, like |-> NoTopic]}

\* Three hours and one second pass between calls
DedupClockSteps == {3 * Hour, 1}

MaxDedupSteps == 6

\* Topics recorded and checked while the clock runs
InitDedup ==
    /\ now = 0
    /\ steps = 0
    /\ InitEntropy
    /\ criticalThreshold = 100
    /\ InitDetectors
    /\ InitIdentity
    /\ InitGovernance
    /\ InitHooks
    /\ InitScorer
    /\ InitLoop
    /\ InitStoreIdle

RecordTopicStep ==
    /\ steps < MaxDedupSteps
    /\ \E topic \in RecordedTopics : RecordTopic(topic)

IsDuplicateStep ==
    /\ steps < MaxDedupSteps
    /\ \E c \in CheckedTopics : IsDuplicate(c.text)

DedupClockStep ==
    /\ steps < MaxDedupSteps
    /\ \E d \in DedupClockSteps : PassTime(d)

NextDedup ==
    \/ RecordTopicStep
    \/ IsDuplicateStep
    \/ DedupClockStep

SpecDedup == InitDedup /\ [][NextDedup]_vars

\* config.quietHours, each with the start and end of its window in minutes of
\* the day, written down by hand: no quietHours; '22:00' to '07:00'; an object
\* without start and end (the defaults); '09:30' to '17:00'; '8' to '8:05';
\* '12:00' to '12:00'; '23:30' to '00:00'; '00:00' to '06:00'
QuietConfigs ==
    {[config |-> [present |-> FALSE, start |-> NoClock, end |-> NoClock],
      startMinutes |-> 0, endMinutes |-> 0],
     [config |-> [present |-> TRUE,
                  start |-> <<50, 50, 58, 48, 48>>,
                  end |-> <<48, 55, 58, 48, 48>>],
      startMinutes |-> 1320, endMinutes |-> 420],
     [config |-> [present |-> TRUE,
                  start |-> NoClock,
                  end |-> NoClock],
      startMinutes |-> 1320, endMinutes |-> 420],
     [config |-> [present |-> TRUE,
                  start |-> <<48, 57, 58, 51, 48>>,
                  end |-> <<49, 55, 58, 48, 48>>],
      startMinutes |-> 570, endMinutes |-> 1020],
     [config |-> [present |-> TRUE,
                  start |-> <<56>>,
                  end |-> <<56, 58, 48, 53>>],
      startMinutes |-> 480, endMinutes |-> 485],
     [config |-> [present |-> TRUE,
                  start |-> <<49, 50, 58, 48, 48>>,
                  end |-> <<49, 50, 58, 48, 48>>],
      startMinutes |-> 720, endMinutes |-> 720],
     [config |-> [present |-> TRUE,
                  start |-> <<50, 51, 58, 51, 48>>,
                  end |-> <<48, 48, 58, 48, 48>>],
      startMinutes |-> 1410, endMinutes |-> 0],
     [config |-> [present |-> TRUE,
                  start |-> <<48, 48, 58, 48, 48>>,
                  end |-> <<48, 54, 58, 48, 48>>],
      startMinutes |-> 0, endMinutes |-> 360]}

\* The local times of the calls
QuietHourValues == 0..23

QuietMinuteValues == {0, 4, 5, 29, 30, 59}

MaxQuietHoursCalls == 1

\* isQuietHours under one configuration at several times of the day
InitQuietHours ==
    /\ now = 0
    /\ steps = 0
    /\ InitEntropy
    /\ criticalThreshold = 100
    /\ InitDetectors
    /\ InitIdentity
    /\ InitGovernance
    /\ InitHooks
    /\ InitScorer
    /\ InitLoop
    /\ InitStoreIdle

QuietHoursStep ==
    /\ steps < MaxQuietHoursCalls
    /\ \E c \in QuietConfigs, hours \in QuietHourValues, minutes \in QuietMinuteValues :
          IsQuietHours(c.config, hours, minutes)

NextQuietHours == QuietHoursStep

SpecQuietHours == InitQuietHours /\ [][NextQuietHours]_vars

\* The notifications queued
Notifications == {"brief", "alert"}

\* Ten seconds and half a minute pass while the batch timer is pending
BatchClockSteps == {10, BatchWindow}

MaxNotifications == 3

\* Notifications queued while the batch timer runs
InitBatch ==
    /\ now = 0
    /\ steps = 0
    /\ InitEntropy
    /\ criticalThreshold = 100
    /\ InitDetectors
    /\ InitIdentity
    /\ InitGovernance
    /\ InitHooks
    /\ InitScorer
    /\ InitLoop
    /\ InitStoreIdle

QueueNotificationStep ==
    /\ Len(queuedLog) < MaxNotifications
    /\ \E notification \in Notifications : QueueNotification(notification)

ElapseStep == \E d \in BatchClockSteps : Elapse(d)

NextBatch ==
    \/ QueueNotificationStep
    \/ BatchTimerFires
    \/ ElapseStep

SpecBatch == InitBatch /\ [][NextBatch]_vars

\* The clock keeps running and a timer whose deadline has passed runs its
\* callback: the event loop is not blocked for ever
FairSpecBatch == SpecBatch /\ WF_vars(ElapseStep) /\ WF_vars(BatchTimerFires)

\* The descriptions of the lessons sighted: "alpha bravo charlie delta echoes
\* foxtrot golfing hotel"; a text sharing 7 of the 10 words of the two (exactly
\* 0.7); and a text sharing 8 of the 9 words of the two
LessonA == <<97, 108, 112, 104, 97, 32, 98, 114, 97, 118, 111, 32, 99, 104, 97, 114, 108, 105, 101, 32, 100, 101, 108, 116, 97, 32, 101, 99, 104, 111, 101, 115, 32, 102, 111, 120, 116, 114, 111, 116, 32, 103, 111, 108, 102, 105, 110, 103, 32, 104, 111, 116, 101, 108>>

\* "alpha bravo charlie delta echoes foxtrot golfing india juliet"
LessonB == <<97, 108, 112, 104, 97, 32, 98, 114, 97, 118, 111, 32, 99, 104, 97, 114, 108, 105, 101, 32, 100, 101, 108, 116, 97, 32, 101, 99, 104, 111, 101, 115, 32, 102, 111, 120, 116, 114, 111, 116, 32, 103, 111, 108, 102, 105, 110, 103, 32, 105, 110, 100, 105, 97, 32, 106, 117, 108, 105, 101, 116>>

\* "Alpha bravo, charlie delta echoes foxtrot golfing hotel kilo"
LessonC == <<65, 108, 112, 104, 97, 32, 98, 114, 97, 118, 111, 44, 32, 99, 104, 97, 114, 108, 105, 101, 32, 100, 101, 108, 116, 97, 32, 101, 99, 104, 111, 101, 115, 32, 102, 111, 120, 116, 114, 111, 116, 32, 103, 111, 108, 102, 105, 110, 103, 32, 104, 111, 116, 101, 108, 32, 107, 105, 108, 111>>

\* The candidates sighted
LessonInputs ==
    {Candidate("gv-auto-11", "user_correction", LessonA, LessonA),
     Candidate("gv-auto-12", "user_correction", LessonB, LessonB),
     Candidate("gv-auto-13", "user_correction", LessonC, LessonC),
     Candidate("gv-auto-14", "auto_detected", LessonA, LessonA)}

MaxCandidateSteps == 4

\* Lessons sighted on a new file
InitCandidates ==
    /\ now = RankClockStart
    /\ steps = 0
    /\ InitEntropy
    /\ criticalThreshold = 100
    /\ InitDetectors
    /\ InitIdentity
    /\ InitGovernance
    /\ InitHooks
    /\ InitScorer
    /\ InitLoop
    /\ InitStoreIdle

SightingStep ==
    /\ steps < MaxCandidateSteps
    /\ \E candidate \in LessonInputs : AddCandidate(candidate)

SightingClockStep ==
    /\ steps < MaxCandidateSteps
    /\ PassTime(Day)

NextCandidates ==
    \/ SightingStep
    \/ SightingClockStep

SpecCandidates == InitCandidates /\ [][NextCandidates]_vars

\* Candidates detected 31 days, 30 days and a second, 30 days less a second,
\* and one day before the run starts, and one without a detection date
AgedCandidate(id, age) ==
    [Candidate(id, "auto_detected", TextCheckLoopState, TextCheckLoopState) EXCEPT
        !.detected = IF age = NULL THEN NULL ELSE RankClockStart - age,
        !.validation_status = "candidate"]

\* The files the lifecycle runs start from: no file; a file under its limits; a
\* file with two vectors more than maxVectors, the oldest of them in the middle,
\* and candidates around the 30-day limit
PruneFiles ==
    {[exists |-> FALSE, content |-> EmptyFile],
     [exists |-> TRUE,
      content |-> [vectors |-> <<VectorPool[2], VectorPool[4]>>,
                   candidates |-> <<AgedCandidate("gv-auto-21", Day)>>,
                   queue |-> EmptyFile.queue]],
     [exists |-> TRUE,
      content |-> [vectors |-> <<VectorPool[4], VectorPool[3], VectorPool[1],
                                 VectorPool[6], VectorPool[2]>>,
                   candidates |-> <<AgedCandidate("gv-auto-21", 31 * Day),
                                    AgedCandidate("gv-auto-22", 30 * Day - 1),
                                    AgedCandidate("gv-auto-23", Day),
                                    AgedCandidate("gv-auto-24", 30 * Day + 1),
                                    AgedCandidate("gv-auto-25", NULL)>>,
                   queue |-> EmptyFile.queue]]}

\* A second and a day pass between runs
PruneClockSteps == {1, Day}

MaxPruneSteps == 4

\* runLifecycle while candidates age
InitPrune ==
    /\ now = RankClockStart
    /\ steps = 0
    /\ InitEntropy
    /\ criticalThreshold = 100
    /\ InitDetectors
    /\ InitIdentity
    /\ InitGovernance
    /\ InitHooks
    /\ InitScorer
    /\ InitLoop
    /\ InitStore
    /\ gvFile \in PruneFiles
    /\ feedback = [id \in VectorIds |-> NoFeedback]
    /\ feedbackLog = [id \in VectorIds |-> <<>>]

PruneStep ==
    /\ steps < MaxPruneSteps
    /\ RunLifecycle

PruneSightingStep ==
    /\ steps < MaxPruneSteps
    /\ \E candidate \in LessonInputs : AddCandidate(candidate)

PruneClockStep ==
    /\ steps < MaxPruneSteps
    /\ \E d \in PruneClockSteps : PassTime(d)

NextPrune ==
    \/ PruneStep
    \/ PruneSightingStep
    \/ PruneClockStep

SpecPrune == InitPrune /\ [][NextPrune]_vars

\* The tool calls of the sessions: reads of two files, an edit and a search
SessionCalls ==
    {[tool |-> "Read", output |-> OutAZ, params |-> [NoParams EXCEPT !.path = "/a"]],
     [tool |-> "Read", output |-> OutBY, params |-> [NoParams EXCEPT !.file_path = "/b"]],
     [tool |-> "search", output |-> OutEmpty, params |-> NoParams]}

MaxSessionSteps == 4

\* Tool calls of two agents over several sessions
SessionToolStep ==
    /\ steps < MaxSessionSteps
    /\ \E a \in Agents, c \in SessionCalls : AfterToolCall(a, c.tool, c.output, c.params)

SessionBoundaryStep ==
    /\ steps < MaxSessionSteps
    /\ \E a \in Agents : SessionBoundary(a)

NextSessions ==
    \/ SessionToolStep
    \/ SessionBoundaryStep

SpecSessions == InitHooksRun /\ [][NextSessions]_vars

\* The turns processed: user message, response and score, each with what the
\* response and the message carry: whether the response is principle-aligned,
\* claims a capability without demonstrating it, and whether the user corrects
TurnInputs ==
    {\* "Thanks" / "Staying grounded in integrity, here is the result"
     [user |-> <<84, 104, 97, 110, 107, 115>>,
      response |-> <<83, 116, 97, 121, 105, 110, 103, 32, 103, 114, 111, 117, 110, 100, 101, 100, 32, 105, 110, 32, 105, 110, 116, 101, 103, 114, 105, 116, 121, 44, 32, 104, 101, 114, 101, 32, 105, 115, 32, 116, 104, 101, 32, 114, 101, 115, 117, 108, 116>>,
      score |-> 20, aligned |-> TRUE, claim |-> FALSE, correction |-> FALSE],
     \* "Actually that is wrong" / "I can do that"
     [user |-> <<65, 99, 116, 117, 97, 108, 108, 121, 32, 116, 104, 97, 116, 32, 105, 115, 32, 119, 114, 111, 110, 103>>,
      response |-> <<73, 32, 99, 97, 110, 32, 100, 111, 32, 116, 104, 97, 116>>,
      score |-> 50, aligned |-> FALSE, claim |-> TRUE, correction |-> TRUE],
     \* "Thanks" / "Grounded in courage I could check"
     [user |-> <<84, 104, 97, 110, 107, 115>>,
      response |-> <<71, 114, 111, 117, 110, 100, 101, 100, 32, 105, 110, 32, 99, 111, 117, 114, 97, 103, 101, 32, 73, 32, 99, 111, 117, 108, 100, 32, 99, 104, 101, 99, 107>>,
      score |-> 50, aligned |-> TRUE, claim |-> TRUE, correction |-> FALSE],
     \* "Thanks" / "I will avoid that, grounded in integrity"
     [user |-> <<84, 104, 97, 110, 107, 115>>,
      response |-> <<73, 32, 119, 105, 108, 108, 32, 97, 118, 111, 105, 100, 32, 116, 104, 97, 116, 44, 32, 103, 114, 111, 117, 110, 100, 101, 100, 32, 105, 110, 32, 105, 110, 116, 101, 103, 114, 105, 116, 121>>,
      score |-> 75, aligned |-> FALSE, claim |-> FALSE, correction |-> FALSE],
     \* "Thanks" / "Integrity matters"
     [user |-> <<84, 104, 97, 110, 107, 115>>,
      response |-> <<73, 110, 116, 101, 103, 114, 105, 116, 121, 32, 109, 97, 116, 116, 101, 114, 115>>,
      score |-> 20, aligned |-> FALSE, claim |-> FALSE, correction |-> FALSE]}

IdentityClockStart == 40 * Day

\* Tension lists that earlier turns have left, in the order they were added:
\* none; two active ones 30 minutes and 10 minutes old with a resolved one
\* between them; one a second short of 7 days old, an active one a second short
\* of 30 minutes old and a resolved one
SeededTensions ==
    {<<>>,
     <<Tension(1, "user_correction", 50, IdentityClockStart - 30 * 60),
       [Tension(2, "capability_gap", 50, IdentityClockStart - 20 * 60)
           EXCEPT !.status = "resolved"],
       Tension(3, "entropy_spike", 75, IdentityClockStart - 10 * 60)>>,
     <<Tension(1, "entropy_spike", 75, IdentityClockStart - 7 * Day + 1),
       Tension(2, "capability_gap", 50, IdentityClockStart - 30 * 60 + 1),
       [Tension(3, "user_correction", 50, IdentityClockStart - 60)
           EXCEPT !.status = "resolved"]>>}

\* A second, and 20 minutes, pass between turns
IdentityClockSteps == {1, 20 * 60}

MaxIdentitySteps == 3

\* processTurn of one agent while its tensions age
InitIdentityRun ==
    /\ now = IdentityClockStart
    /\ steps = 0
    /\ InitEntropy
    /\ criticalThreshold = 100
    /\ InitDetectors
    /\ InitGovernance
    /\ InitHooks
    /\ InitScorer
    /\ InitLoop
    /\ InitStoreIdle
    /\ activeTensions \in SeededTensions
    /\ memoryStore = <<>>
    /\ identityOp = [name |-> "none", before |-> <<>>, detected |-> <<>>, resolved |-> <<>>,
                     response |-> <<>>, memoryApi |-> FALSE, at |-> 0, stored |-> 0,
                     created |-> Len(activeTensions)]
    /\ heartbeatOp = [name |-> "none", response |-> <<>>, memoryApi |-> FALSE, stored |-> 0,
                      raised |-> FALSE]

ProcessTurnStep ==
    /\ steps < MaxIdentitySteps
    /\ \E t \in TurnInputs, memoryApi \in BOOLEAN :
          ProcessTurn(t.user, t.response, t.score, memoryApi)

IdentityClockStep ==
    /\ steps < MaxIdentitySteps
    /\ \E d \in IdentityClockSteps : PassTime(d)

NextIdentity ==
    \/ ProcessTurnStep
    \/ IdentityClockStep

SpecIdentity == InitIdentityRun /\ [][NextIdentity]_vars

\* Heartbeat responses, each with the structured decision it carries, if any,
\* and whether it reads as ground-stable
HeartbeatResponses ==
    {\* "DECISION: TEND — check the logs"
     [text |-> <<68, 69, 67, 73, 83, 73, 79, 78, 58, 32, 84, 69, 78, 68, 32, 8212, 32, 99, 104, 101, 99, 107, 32, 116, 104, 101, 32, 108, 111, 103, 115>>,
      decision |-> "TEND", reason |-> <<99, 104, 101, 99, 107, 32, 116, 104, 101, 32, 108, 111, 103, 115>>, stable |-> FALSE],
     \* "Status.\ndecision:ground -  all quiet \nNext beat soon"
     [text |-> <<83, 116, 97, 116, 117, 115, 46, 10, 100, 101, 99, 105, 115, 105, 111, 110, 58, 103, 114, 111, 117, 110, 100, 32, 45, 32, 32, 97, 108, 108, 32, 113, 117, 105, 101, 116, 32, 10, 78, 101, 120, 116, 32, 98, 101, 97, 116, 32, 115, 111, 111, 110>>,
      decision |-> "GROUND", reason |-> <<97, 108, 108, 32, 113, 117, 105, 101, 116>>, stable |-> TRUE],
     \* "Ground stable, nothing new"
     [text |-> <<71, 114, 111, 117, 110, 100, 32, 115, 116, 97, 98, 108, 101, 44, 32, 110, 111, 116, 104, 105, 110, 103, 32, 110, 101, 119>>,
      decision |-> "", reason |-> <<>>, stable |-> TRUE],
     \* " heartbeat_ok"
     [text |-> <<32, 104, 101, 97, 114, 116, 98, 101, 97, 116, 95, 111, 107>>,
      decision |-> "", reason |-> <<>>, stable |-> TRUE],
     \* "DECISION: SURFACE"
     [text |-> <<68, 69, 67, 73, 83, 73, 79, 78, 58, 32, 83, 85, 82, 70, 65, 67, 69>>,
      decision |-> "", reason |-> <<>>, stable |-> FALSE],
     \* "All done for today"
     [text |-> <<65, 108, 108, 32, 100, 111, 110, 101, 32, 102, 111, 114, 32, 116, 111, 100, 97, 121>>,
      decision |-> "", reason |-> <<>>, stable |-> FALSE]}

MaxHeartbeatSteps == 3

LogDecisionStep ==
    /\ steps < MaxHeartbeatSteps
    /\ \E h \in HeartbeatResponses, memoryApi \in BOOLEAN : LogDecision(h.text, memoryApi)

NextHeartbeat == LogDecisionStep

SpecHeartbeat == InitIdentityRun /\ [][NextHeartbeat]_vars

\* recordFeedback on a feedback file that earlier calls have filled
InitFeedback ==
    /\ now = RankClockStart
    /\ steps = 0
    /\ InitEntropy
    /\ InitDetectors
    /\ InitIdentity
    /\ InitGovernance
    /\ InitHooks
    /\ InitScorer
    /\ criticalThreshold = 100
    /\ InitLoop
    /\ InitStore
    /\ gvFile = [exists |-> FALSE, content |-> EmptyFile]
    /\ \E first \in FeedbackHistories, second \in FeedbackHistories :
          /\ feedbackLog = [id \in VectorIds |->
                               IF id = "gv-2" THEN first
                               ELSE IF id = "gv-4" THEN second ELSE <<>>]
          /\ feedback = [id \in VectorIds |->
                            IF id = "gv-2" THEN RecordAll(NoFeedback, first, 1)
                            ELSE IF id = "gv-4" THEN RecordAll(NoFeedback, second, 1)
                            ELSE NoFeedback]

FeedbackStep ==
    /\ steps < MaxFeedbackCalls
    /\ \E vectorId \in FeedbackIds, delta \in EntropyDeltas : RecordFeedback(vectorId, delta)

NextFeedback == FeedbackStep

SpecFeedback == InitFeedback /\ [][NextFeedback]_vars

\* ------------------------------------------------------------------------
\* Claims about trackSustainedEntropy
\* ------------------------------------------------------------------------
ClaimElevated(score) == 10 * score > 8 * criticalThreshold

\* C1: a call with score <= 0.8 x criticalThreshold (the floor itself included)
\* returns {sustained:false, turns:0, minutes:0} and leaves sustainedTurns = 0 and
\* sustainedStartTime = null, whatever the length and duration of the elevated run
\* before it; and an elevated call that follows no elevated call reports turns = 1
\* and starts the timer at the time of that call.
C1_HardReset ==
    /\ (trackArg # NULL /\ ~ClaimElevated(trackArg)) =>
          /\ sustainedResult = [sustained |-> FALSE, turns |-> 0, minutes |-> 0]
          /\ sustainedTurns = 0
          /\ sustainedStartTime = NULL
    /\ (trackArg # NULL /\ ClaimElevated(trackArg) /\ prevRunCalls = 0) =>
          /\ sustainedResult.turns = 1
          /\ sustainedTurns = 1
          /\ sustainedStartTime = runFirstCall
          /\ sustainedStartTime # NULL

\* C1 witness: a call exactly at the floor ends a run of at least two elevated
\* calls that had lasted 45 minutes or more.
C1_Witness ==
    /\ trackArg # NULL
    /\ 10 * trackArg = 8 * criticalThreshold
    /\ prevRunCalls >= 2
    /\ prevRunSpan >= 45 * 60
    /\ sustainedTurns = 0

\* C2: with criticalThreshold = 1.0 and sustainedMinutes = 45, a call of an
\* uninterrupted run of scores > 0.8 reports sustained:true exactly when 45
\* minutes or more have passed since the first call of the run, and turns is the
\* number of calls of the run so far.
C2_SustainedIffElapsed ==
    (criticalThreshold = 100 /\ trackArg # NULL /\ trackArg > 80) =>
        /\ sustainedResult.sustained = (prevRunSpan >= 45 * 60)
        /\ sustainedResult.turns = runCalls
        /\ runCalls = prevRunCalls + 1

\* C2 witness: a call made 45 minutes or more into a run reports sustained.
C2_Witness ==
    /\ criticalThreshold = 100
    /\ trackArg # NULL /\ trackArg > 80
    /\ prevRunSpan >= 45 * 60
    /\ sustainedResult.sustained
    /\ sustainedResult.turns >= 2

\* ------------------------------------------------------------------------
\* Claims about LoopDetection
\* ------------------------------------------------------------------------
LastCall == callLog[Len(callLog)]

LastCallPath == ResolvePath(LastCall.params)

NonExemptCall == loopOp = "call" /\ LastCall.tool \notin ExemptTools

\* The n most recent calls exist and all name the tool of the last call.
LastCallsSameTool(n) ==
    /\ Len(callLog) >= n
    /\ \A i \in (Len(callLog) - n + 1)..Len(callLog) : callLog[i].tool = LastCall.tool

\* Reads of path p by a recognized read tool since the last reset.
ReadsOf(p) ==
    Cardinality({i \in 1..Len(callLog) :
                    IsReadTool(callLog[i].tool) /\ ResolvePath(callLog[i].params) = p})

ReadsByNonExemptOf(p) ==
    Cardinality({i \in 1..Len(callLog) :
                    /\ IsReadTool(callLog[i].tool)
                    /\ callLog[i].tool \notin ExemptTools
                    /\ ResolvePath(callLog[i].params) = p})

\* The record recordAndCheck keeps of a call.
RecordOf(c) == [tool |-> c.tool, hash |-> Djb2Hash(c.output), timestamp |-> c.time]

\* The three most recent calls exist and have the output of the last call.
LastThreeOutputsIdentical ==
    /\ Len(callLog) >= 3
    /\ \A i \in (Len(callLog) - 2)..Len(callLog) : callLog[i].output = LastCall.output

\* C3: a call to a non-exempt tool reports consecutive_tool whenever the N = 5
\* most recent calls, the current one included, all name the same tool, whatever
\* their outputs; a call to a tool other than the one called just before it does
\* not report consecutive_tool.
C3_ConsecutiveTool ==
    NonExemptCall =>
        /\ LastCallsSameTool(5) => loopResult = Loop("consecutive_tool")
        /\ (Len(callLog) >= 2 /\ callLog[Len(callLog) - 1].tool # LastCall.tool) =>
              loopResult.type # "consecutive_tool"

\* C3 witness: the call before reported consecutive_tool after five calls of one
\* tool with differing outputs, and this call, to another tool, does not.
C3_Witness ==
    /\ NonExemptCall
    /\ Len(callLog) >= 6
    /\ prevLoopResult = Loop("consecutive_tool")
    /\ callLog[Len(callLog) - 1].tool # LastCall.tool
    /\ \E i, j \in (Len(callLog) - 5)..(Len(callLog) - 1) :
          callLog[i].output # callLog[j].output
    /\ loopResult.type # "consecutive_tool"

\* C4 as stated: the call that reads a path for the 3rd time since the last reset
\* with a non-exempt read tool returns loopDetected:true with type file_reread.
C4_ThirdReadIsFileReread ==
    (/\ NonExemptCall
     /\ IsReadTool(LastCall.tool)
     /\ LastCallPath # ""
     /\ ReadsOf(LastCallPath) = 3) => loopResult = Loop("file_reread")

\* C4 amended: that call returns loopDetected:true, with type file_reread unless
\* the 5 most recent calls all name its tool, in which case the consecutive-tool
\* check, which runs first, makes the type consecutive_tool.
C4_ThirdReadDetected ==
    (/\ NonExemptCall
     /\ IsReadTool(LastCall.tool)
     /\ LastCallPath # ""
     /\ ReadsOf(LastCallPath) = 3) =>
        loopResult = IF LastCallsSameTool(5) THEN Loop("consecutive_tool")
                     ELSE Loop("file_reread")

\* C4 witness: a third read of a path reported as file_reread.
C4_Witness ==
    /\ NonExemptCall
    /\ IsReadTool(LastCall.tool)
    /\ LastCallPath # ""
    /\ ReadsOf(LastCallPath) = 3
    /\ loopResult = Loop("file_reread")

\* C5: empty output is no signal.  When neither the consecutive-tool nor the
\* file-re-read check fires, a non-exempt call whose three most recent calls have
\* one identical non-empty output reports output_repetition, and a call that
\* reports output_repetition has a non-empty output: three calls with empty
\* output never report it.
C5_EmptyOutputIsNoSignal ==
    (NonExemptCall /\ loopResult.type \notin {"consecutive_tool", "file_reread"}) =>
        /\ (LastThreeOutputsIdentical /\ LastCall.output # OutEmpty) =>
              loopResult = Loop("output_repetition")
        /\ loopResult.type = "output_repetition" => LastCall.output # OutEmpty

\* C6: a call to an exempt tool returns loopDetected:false with type null,
\* however often the tool, the path or the output has been repeated.
C6_ExemptNeverDetected ==
    (loopOp = "call" /\ LastCall.tool \in ExemptTools) => loopResult = NoLoop

\* C6 witness: an exempt call that is the third read of its path and the third
\* call in a row with one non-empty output.
C6_Witness ==
    /\ loopOp = "call"
    /\ LastCall.tool \in ExemptTools
    /\ LastCallPath # ""
    /\ ReadsOf(LastCallPath) >= 3
    /\ LastThreeOutputsIdentical
    /\ LastCall.output # OutEmpty
    /\ loopResult = NoLoop

\* C7: a call to an exempt tool is recorded like any other: its record is the
\* newest of toolHistory and every path's counter counts the reads by exempt
\* tools too; a later non-exempt call is checked against these counts.
C7_ExemptIsRecorded ==
    /\ (loopOp = "call" /\ LastCall.tool \in ExemptTools) =>
          /\ toolHistory # <<>>
          /\ toolHistory[Len(toolHistory)] = RecordOf(LastCall)
    /\ \A p \in Paths : fileReadCounts[p] = ReadsOf(p)
    /\ (NonExemptCall /\ LastCallPath # "" /\ ReadsOf(LastCallPath) >= 3
          /\ ~LastCallsSameTool(5)) => loopResult = Loop("file_reread")

\* C7 witness: a non-exempt read reported as file_reread although non-exempt
\* tools have read the path fewer than 3 times: the exempt reads counted.
C7_Witness ==
    /\ NonExemptCall
    /\ LastCallPath # ""
    /\ ReadsByNonExemptOf(LastCallPath) < 3
    /\ \E i \in 1..Len(callLog) : callLog[i].tool \in ExemptTools
    /\ loopResult = Loop("file_reread")

\* C8: toolHistory holds at most 20 records, the min(n, 20) most recent calls
\* since the last reset in call order, and reset() leaves toolHistory and
\* fileReadCounts empty.
C8_BoundedHistory ==
    LET n == Len(callLog)
        k == IF n < 20 THEN n ELSE 20
    IN  /\ Len(toolHistory) <= 20
        /\ toolHistory = [i \in 1..k |-> RecordOf(callLog[n - k + i])]
        /\ loopOp = "reset" =>
              (toolHistory = <<>> /\ \A p \in Paths : fileReadCounts[p] = 0)

\* C8 witness: more than 20 calls have been made since the last reset.
C8_Witness ==
    /\ loopOp = "call"
    /\ Len(callLog) > 20
    /\ Len(toolHistory) = 20
    /\ toolHistory[1] = RecordOf(callLog[Len(callLog) - 19])

\* ------------------------------------------------------------------------
\* Claims about getRelevantVectors
\* ------------------------------------------------------------------------
\* The relevance score of vector v under the arguments of the last call
LastScore(v) ==
    CalculateRelevance(v, ToLowerCase(rankArgs.userMessage),
                       ExtractWords(ToLowerCase(rankArgs.userMessage)),
                       rankArgs.entropyScore, feedback[v.id], rankArgs.time)

Returned(v) == \E i \in 1..Len(rankScored) : rankScored[i].vector = v

\* C9: whatever the vectors of the file, the user message (empty or not), the
\* entropy score and the feedback, getRelevantVectors returns at most maxInjected
\* vectors, on the scored path and on the priority-queue fallback path alike.
C9_AtMostMaxInjected ==
    rankPath # "none" => Len(rankResult) <= MaxInjected

C9_Witness ==
    /\ rankPath = "priority"
    /\ Len(rankArgs.vectors) > MaxInjected
    /\ Len(rankArgs.queue.high \o rankArgs.queue.medium \o rankArgs.queue.low) > MaxInjected
    /\ Len(rankResult) = MaxInjected

\* C10: for a non-empty user message every returned score lies in
\* [relevanceThreshold, 1], the result is in non-increasing score order, and while
\* the result has maxInjected entries no loaded vector left out of it has a score
\* strictly greater than a returned one; on the scored path the returned score of
\* a vector is its relevance score.
C10_TopScoring ==
    (rankPath # "none" /\ Len(rankArgs.userMessage) > 0) =>
        /\ \A i \in 1..Len(rankScored) :
              /\ rankScored[i].score >= RelevanceThreshold
              /\ rankScored[i].score <= ScoreOne
              /\ \E j \in 1..Len(rankArgs.vectors) : rankArgs.vectors[j] = rankScored[i].vector
              /\ rankPath = "scored" => rankScored[i].score = LastScore(rankScored[i].vector)
        /\ \A i, j \in 1..Len(rankScored) :
              i < j => rankScored[i].score >= rankScored[j].score
        /\ Len(rankScored) = MaxInjected =>
              \A j \in 1..Len(rankArgs.vectors) :
                  ~Returned(rankArgs.vectors[j]) =>
                      \A i \in 1..Len(rankScored) :
                          LastScore(rankArgs.vectors[j]) <= rankScored[i].score

C10_Witness ==
    /\ rankPath = "scored"
    /\ Len(rankScored) = MaxInjected
    /\ rankScored[1].score > rankScored[2].score
    /\ rankScored[2].score < ScoreOne
    /\ \E j \in 1..Len(rankArgs.vectors) :
          /\ ~Returned(rankArgs.vectors[j])
          /\ LastScore(rankArgs.vectors[j]) >= RelevanceThreshold

\* ------------------------------------------------------------------------
\* Claims about candidates and the vectors list
\* ------------------------------------------------------------------------
Entries(list) == {list[i] : i \in 1..Len(list)}

\* C11: after any sequence of addCandidate, validateVector and runLifecycle calls,
\* every vector getRelevantVectors returns is an entry of the file's vectors list
\* at the time of the call with validation_status 'validated' or 'integrated', and
\* is no entry of its candidates list.
C11_OnlyValidatedVectors ==
    rankPath # "none" =>
        \A i \in 1..Len(rankScored) :
            /\ rankScored[i].vector.validation_status \in {"validated", "integrated"}
            /\ rankScored[i].vector \in Entries(ReadFileRaw(rankArgs.file).vectors)
            /\ rankScored[i].vector \notin Entries(ReadFileRaw(rankArgs.file).candidates)

C11_Witness ==
    /\ rankPath = "scored"
    /\ \E i \in 1..Len(rankScored) : rankScored[i].vector.validation_note = "Auto-promoted"
    /\ ReadFileRaw(rankArgs.file).candidates # <<>>
    /\ \E i \in 1..Len(ReadFileRaw(rankArgs.file).vectors) :
          ReadFileRaw(rankArgs.file).vectors[i].validation_status = "candidate"

\* ------------------------------------------------------------------------
\* Claims about feedback
\* ------------------------------------------------------------------------
\* The vector and the call the feedback adjustment is observed on
ProbeVector == VectorPool[4]

ProbeBefore ==
    ScoreBeforeFeedback(ProbeVector, ToLowerCase(TextFixTheToolLoop),
                        ExtractWords(ToLowerCase(TextFixTheToolLoop)), 80, now)

ProbeScore ==
    CalculateRelevance(ProbeVector, ToLowerCase(TextFixTheToolLoop),
                       ExtractWords(ToLowerCase(TextFixTheToolLoop)), 80,
                       feedback[ProbeVector.id], now)

\* C12: the feedback adjustment added to a vector's relevance score is 0 with
\* fewer than 3 feedback entries, and otherwise the negated avgEntropyDelta clamped
\* to [-0.1, +0.1]; its magnitude never exceeds 0.1, and avgEntropyDelta = -0.5
\* with 3 or more entries gives exactly +0.1.
C12_FeedbackAdjustmentCapped ==
    /\ \A id \in VectorIds :
          LET fb == feedback[id]
              adjustment == FeedbackAdjustment(fb)
          IN  /\ Len(fb.entries) < 3 => adjustment = 0
              /\ Len(fb.entries) >= 3 =>
                    adjustment = (IF -fb.avgEntropyDelta > ScoreOne \div 10 THEN ScoreOne \div 10
                                  ELSE IF -fb.avgEntropyDelta < -(ScoreOne \div 10)
                                  THEN -(ScoreOne \div 10)
                                  ELSE -fb.avgEntropyDelta)
              /\ adjustment <= ScoreOne \div 10
              /\ adjustment >= -(ScoreOne \div 10)
              /\ (Len(fb.entries) >= 3 /\ fb.avgEntropyDelta = -(ScoreOne \div 2)) =>
                    adjustment = ScoreOne \div 10
    /\ ProbeScore = ProbeBefore + FeedbackAdjustment(feedback[ProbeVector.id])

C12_Witness ==
    /\ Len(feedbackLog[ProbeVector.id]) >= 3
    /\ Len(feedback[ProbeVector.id].entries) >= 3
    /\ feedback[ProbeVector.id].avgEntropyDelta = -(ScoreOne \div 2)
    /\ ProbeScore = ProbeBefore + ScoreOne \div 10
    /\ steps > 0

\* C16: after any sequence of recordFeedback calls for a vector id its record
\* holds the min(n, 10) most recent entries in order, avgEntropyDelta is the
\* arithmetic mean of the deltas in the window, and totalInjections is the number
\* n of calls made for that id.
C16_FeedbackWindow ==
    \A id \in VectorIds :
        LET log == feedbackLog[id]
            n == Len(log)
            kept == IF n < 10 THEN n ELSE 10
            record == feedback[id]
        IN  /\ Len(record.entries) = kept
            /\ \A k \in 1..kept : record.entries[k] = log[n - kept + k]
            /\ record.totalInjections = n
            /\ n > 0 => record.avgEntropyDelta * kept
                            = SumFrom(record.entries, 1) * (ScoreOne \div 100)

C16_Witness ==
    /\ steps > 0
    /\ \E id \in VectorIds :
          /\ Len(feedbackLog[id]) > 10
          /\ feedback[id].totalInjections > Len(feedback[id].entries)
          /\ feedbackLog[id][1] # feedbackLog[id][Len(feedbackLog[id]) - 9]

\* ------------------------------------------------------------------------
\* Claims about the lexical part of the score
\* ------------------------------------------------------------------------
\* The whitespace-separated tokens of a text, lower-cased
Tokens(text) ==
    LET pieces == Pieces(ToLowerCase(text), Whitespace)
    IN  {pieces[i] : i \in 1..Len(pieces)}

VectorText(v) == v.integration_hypothesis \o <<32>> \o v.description

\* The vector has neither a token nor an extracted word in common with the
\* message of the last call
SharesNoWords(v) ==
    /\ Tokens(VectorText(v)) \cap Tokens(rankArgs.userMessage) = {}
    /\ ExtractWords(ToLowerCase(VectorText(v)))
            \cap ExtractWords(ToLowerCase(rankArgs.userMessage)) = {}

LastScoreBeforeFeedback(v) ==
    ScoreBeforeFeedback(v, ToLowerCase(rankArgs.userMessage),
                        ExtractWords(ToLowerCase(rankArgs.userMessage)),
                        rankArgs.entropyScore, rankArgs.time)

\* C13: a vector that shares no words with the non-empty user message scores at
\* most 0.40 before the feedback adjustment, whatever its detection timestamp,
\* weight and the entropy score, and is never returned.
C13_NoWordsNoLexicalScore ==
    rankPath = "scored" =>
        \A j \in 1..Len(rankArgs.vectors) :
            SharesNoWords(rankArgs.vectors[j]) =>
                /\ LastScoreBeforeFeedback(rankArgs.vectors[j]) <= (40 * ScoreOne) \div 100
                /\ ~Returned(rankArgs.vectors[j])

\* ------------------------------------------------------------------------
\* Claims about the cache of the vector collection
\* ------------------------------------------------------------------------
\* C14: the cache is never stale: whenever the file's content differs from what
\* was last parsed, whoever changed it and whenever, the next loadFile returns
\* the new content; when the content is what was last parsed, loadFile returns
\* the cached data without parsing again.
C14_CacheNeverStale ==
    storeOp.name = "loadFile" =>
        /\ storeOp.returned = ReadFileRaw(storeOp.before)
        /\ (/\ storeOp.cached.set
            /\ storeOp.before.exists
            /\ storeOp.cached.data = storeOp.before.content) => ~storeOp.parsed

\* ------------------------------------------------------------------------
\* Claims about the primary vectors list
\* ------------------------------------------------------------------------
VectorsOf(file) == ReadFileRaw(file).vectors

\* C15: the engine changes the file's vectors list only by a promotion, which
\* appends one entry; getRelevantVectors, loadFile, recordFeedback, addCandidate
\* without promotion and runLifecycle leave it as it was.
C15_VectorsListReadOnly ==
    /\ (/\ storeOp.name \in {"getRelevantVectors", "loadFile", "addCandidate",
                             "runLifecycle"}
        /\ ~storeOp.promoted)
            => VectorsOf(gvFile) = VectorsOf(storeOp.before)
    /\ storeOp.promoted =>
            /\ Len(VectorsOf(gvFile)) = Len(VectorsOf(storeOp.before)) + 1
            /\ SubSeq(VectorsOf(gvFile), 1, Len(VectorsOf(storeOp.before)))
                    = VectorsOf(storeOp.before)

\* ------------------------------------------------------------------------
\* Claims about the recursive-meta bonus
\* ------------------------------------------------------------------------
\* The counts of the at most 5 turns before the last one
PrecedingCounts == LastN(SubSeq(metaLog, 1, Len(metaLog) - 1), 5)

RECURSIVE SumSeq(_)
SumSeq(seq) == IF seq = <<>> THEN 0 ELSE Head(seq) + SumSeq(Tail(seq))

MetaTotal == metaLog[Len(metaLog)] + SumSeq(PrecedingCounts)

\* C20: the bonus of a turn is decided by total = the turn's count + the counts
\* of the at most 5 turns before it: 45 above 16, 30 above 14, 15 above 10,
\* else 0; the turn's own count enters the history after the total is taken,
\* and the history is the counts of the last 5 turns.
C20_RecursiveMetaBonus ==
    metaLog # <<>> =>
        /\ metaBonus = (IF MetaTotal > 16 THEN 45
                        ELSE IF MetaTotal > 14 THEN 30
                        ELSE IF MetaTotal > 10 THEN 15
                        ELSE 0)
        /\ recentMetaCounts = LastN(metaLog, 5)

\* A 7th turn whose total is 17, while the first turn's count has left the window
C20_Witness ==
    /\ Len(metaLog) = 7
    /\ metaLog[1] > 0
    /\ MetaTotal = 17
    /\ metaBonus = 45

\* ------------------------------------------------------------------------
\* Claims about the hooks
\* ------------------------------------------------------------------------
\* C17: under every interleaving of an agent's before_agent_start and agent_end
\* steps, every feedback entry is scored by the end of the turn whose start
\* captured its batch, a batch yields at most one entry for a vector, and after
\* a closure the pending injection state is cleared.
C17_FeedbackPairing ==
    /\ \A i \in 1..Len(feedbackTrace) : feedbackTrace[i].batch = feedbackTrace[i].scoredBy
    /\ \A i, j \in 1..Len(feedbackTrace) :
          (/\ feedbackTrace[i].agent = feedbackTrace[j].agent
           /\ feedbackTrace[i].batch = feedbackTrace[j].batch
           /\ feedbackTrace[i].id = feedbackTrace[j].id) => i = j
    /\ \A a \in Agents :
          (lastHook = [agent |-> a, name |-> "agent_end", phase |-> "closed"]) =>
              /\ agentStates[a].lastInjectedVectors = <<>>
              /\ agentStates[a].preInjectionEntropy = NULL

\* What an agent can observe: its AgentState, the files of its data directory
\* and the growth-vector collection its store reads and writes
Observable(b) == <<agentStates[b], endCall[b], GrowthVectorsFile(b)>>

\* C18: no hook step of an agent changes anything another agent can observe.
C18_AgentIsolation ==
    [][\A a, b \in Agents :
          (a # b /\ lastHook'.agent = a) => Observable(b)' = Observable(b)]_vars

\* C19: an agent_end during which a write fails completes without raising and
\* leaves lastScore, the sustained counters and the ring buffer as a run without
\* the failure does, and the pending injection state cleared.
C19_BestEffortPersistence ==
    \A a \in Agents :
        (/\ endCall[a].stage = "idle"
         /\ endCall[a].turn > 0
         /\ endCall[a].fail # "none") =>
            /\ ~endCall[a].raised
            /\ agentStates[a].lastScore = endCall[a].expected.lastScore
            /\ agentStates[a].sustainedTurns = endCall[a].expected.sustainedTurns
            /\ agentStates[a].sustainedStartTime = endCall[a].expected.sustainedStartTime
            /\ agentStates[a].recentHistory = endCall[a].expected.recentHistory
            /\ (turn[a].number = endCall[a].turn =>
                    /\ agentStates[a].lastInjectedVectors = <<>>
                    /\ agentStates[a].preInjectionEntropy = NULL)

\* ------------------------------------------------------------------------
\* Claims about the composite score
\* ------------------------------------------------------------------------
\* The signals of the last scoring, read off the inputs it was called with
CallUser == CHOOSE u \in UserTexts : u.text = scoreCall.userMessage

CallResponse == CHOOSE r \in ResponseTexts : r.text = scoreCall.responseText

\* A high-entropy observation of the ring buffer younger than 6 hours at the call
CallHasRecentHigh ==
    \E i \in 1..Len(scoreCall.history) :
        /\ scoreCall.history[i].entropy > 60
        /\ scoreCall.time - scoreCall.history[i].timestamp < 6 * 3600

SameScoringInputs ==
    /\ prevScoreCall.time # NULL
    /\ scoreCall.userMessage = prevScoreCall.userMessage
    /\ scoreCall.responseText = prevScoreCall.responseText
    /\ scoreCall.detectorResults = prevScoreCall.detectorResults
    /\ scoreCall.context = prevScoreCall.context
    /\ scoreCall.history = prevScoreCall.history

\* The entries of the call's ring buffer younger than 6 hours at the call
YoungEntries(call) ==
    {i \in 1..Len(call.history) : call.time - call.history[i].timestamp < 6 * 3600}

\* C21 (as stated): two scorings with the same texts, detector results and ring
\* buffer contents return the same score, whatever the time of each.
C21_SameInputsSameScore ==
    SameScoringInputs => scoreCall.score = prevScoreCall.score

\* C21 (amended): two scorings with the same texts, detector results and ring
\* buffer contents return the same score when the same entries of the ring
\* buffer are younger than the decay window at the time of each call.
C21_SameInputsAndAgesSameScore ==
    (SameScoringInputs /\ YoungEntries(scoreCall) = YoungEntries(prevScoreCall))
        => scoreCall.score = prevScoreCall.score

\* Two scorings hours apart with the quiet-integration bonus in both
C21_Witness ==
    /\ SameScoringInputs
    /\ scoreCall.time > prevScoreCall.time
    /\ YoungEntries(scoreCall) = YoungEntries(prevScoreCall)
    /\ scoreCall.quietBonus = 15
    /\ prevScoreCall.quietBonus = 15

\* The observations logged before the last one, as far as they are among the 5
\* most recent when the last turn is scored
PriorObservations == LastN(SubSeq(observed, 1, Len(observed) - 1), 5)

\* C23: at a turn's end the quiet-integration bonus is in the score exactly when
\* the response is reflective and an observation logged for an earlier turn,
\* among the 5 most recent, has entropy above 0.6 and is younger than 6 hours;
\* the turn's own score is no such observation.
C23_QuietIntegration ==
    scoreCall.logged =>
        /\ scoreCall.quietBonus \in {0, 15}
        /\ scoreCall.quietBonus = 15 <=>
              /\ CallResponse.reflective
              /\ \E i \in 1..Len(PriorObservations) :
                    /\ PriorObservations[i].entropy > 60
                    /\ scoreCall.time - PriorObservations[i].timestamp < 6 * 3600
        /\ scoreCall.score = (IF CallUser.correction THEN 40 ELSE 0)
                           + (IF CallUser.emotional THEN 30 ELSE 0)
                           + scoreCall.quietBonus
        /\ observed[Len(observed)].entropy = scoreCall.score

\* A reflective response to a high-entropy exchange that gets no bonus for want
\* of an earlier observation, and one that gets it from the turn before
C23_Witness ==
    /\ scoreCall.logged
    /\ prevScoreCall.logged
    /\ prevScoreCall.score > 60
    /\ prevScoreCall.quietBonus = 0
    /\ \E r \in ResponseTexts : r.text = prevScoreCall.responseText /\ r.reflective
    /\ scoreCall.quietBonus = 15

\* ------------------------------------------------------------------------
\* Claims about the observation log and its ring buffer
\* ------------------------------------------------------------------------
\* C24: starting from at most 5 entries, the ring buffer holds at most 5
\* entries, and they are the most recently logged observations in logging
\* order, each with the score passed in its call.
C24_RingBuffer ==
    /\ Len(recentHistory) <= 5
    /\ Len(recentHistory) = Min(Len(observed), 5)
    /\ \A i \in 1..Len(recentHistory) :
          /\ recentHistory[i].timestamp
                = observed[Len(observed) - Len(recentHistory) + i].timestamp
          /\ recentHistory[i].entropy
                = observed[Len(observed) - Len(recentHistory) + i].entropy

\* An observation logged into a full ring buffer
C24_Witness ==
    /\ logOp.name = "logObservation"
    /\ Len(logOp.historyBefore) = 5
    /\ Len(observed) > 6
    /\ recentHistory[5].entropy = 70
    /\ recentHistory[1] # logOp.historyBefore[1]

\* The record the last logObservation appended
LoggedRecord ==
    [timestamp |-> observed[Len(observed)].timestamp,
     score |-> observed[Len(observed)].entropy]

\* C25: after a logObservation the log holds at most 500 records; the append
\* that makes it 501 leaves the 250 most recent in order, any other append
\* adds one record at the end and changes none before it.
C25_LogBounded ==
    logOp.name = "logObservation" =>
        /\ Len(logFile) <= 500
        /\ logFile[Len(logFile)] = LoggedRecord
        /\ IF Len(logOp.before) + 1 = 501
           THEN /\ Len(logFile) = 250
                /\ \A i \in 1..249 : logFile[i] = logOp.before[251 + i]
           ELSE /\ Len(logFile) = Len(logOp.before) + 1
                /\ \A i \in 1..Len(logOp.before) : logFile[i] = logOp.before[i]

\* The append that makes the log 501 records long
C25_Witness ==
    /\ logOp.name = "logObservation"
    /\ Len(logOp.before) = 500
    /\ Len(logFile) = 250

\* ------------------------------------------------------------------------
\* Claims about the rate limiter
\* ------------------------------------------------------------------------
\* C26 (as stated): canInvestigate leaves the counts and the reset times of the
\* limiter as they were, in every state and at every clock time.
C26_CanInvestigatePure ==
    govOp.name = "canInvestigate" => rateLimiter = govOp.before

\* Whether the last operation consumed an investigation
Consumed == govOp.name = "consumeQueuedIntent" /\ govOp.result

\* C26 (amended): canInvestigate never increments a count; it leaves a window's
\* count and reset time as they were unless the clock has reached the reset
\* time, and then zeroes that count and moves the reset time one window past
\* the call; counts grow only where record() runs.
C26_CanInvestigateResetsOnly ==
    /\ govOp.name = "canInvestigate" =>
          /\ rateLimiter.limits = govOp.before.limits
          /\ IF govOp.time >= govOp.before.hourlyResetTime
             THEN /\ rateLimiter.hourlyCount = 0
                  /\ rateLimiter.hourlyResetTime = govOp.time + 3600
             ELSE /\ rateLimiter.hourlyCount = govOp.before.hourlyCount
                  /\ rateLimiter.hourlyResetTime = govOp.before.hourlyResetTime
          /\ IF govOp.time >= govOp.before.dailyResetTime
             THEN /\ rateLimiter.dailyCount = 0
                  /\ rateLimiter.dailyResetTime = govOp.time + 86400
             ELSE /\ rateLimiter.dailyCount = govOp.before.dailyCount
                  /\ rateLimiter.dailyResetTime = govOp.before.dailyResetTime
    /\ (govOp.name # "none" /\ ~Consumed) =>
          /\ rateLimiter.hourlyCount <= govOp.before.hourlyCount
          /\ rateLimiter.dailyCount <= govOp.before.dailyCount

\* canInvestigate called once the hourly window has run out, with investigations
\* counted in both windows
C26_Witness ==
    /\ govOp.name = "canInvestigate"
    /\ govOp.before.hourlyCount > 0
    /\ rateLimiter.hourlyCount = 0
    /\ rateLimiter.dailyCount = govOp.before.dailyCount
    /\ rateLimiter.dailyCount > 0

\* The investigations consumed from `from` up to, not including, `to`
ConsumedWithin(from, to) ==
    Cardinality({i \in 1..Len(consumedAt) : consumedAt[i] >= from /\ consumedAt[i] < to})

HourlyReset == rateLimiter.hourlyResetTime # govOp.before.hourlyResetTime

DailyReset == rateLimiter.dailyResetTime # govOp.before.dailyResetTime

\* C27: the hourly and the daily count never exceed their limits, each counts
\* the investigations consumed in its own window, and a window that resets
\* leaves the other window's count and reset time alone.
C27_RateLimits ==
    /\ rateLimiter.hourlyCount <= rateLimiter.limits.perHour
    /\ rateLimiter.dailyCount <= rateLimiter.limits.perDay
    /\ ConsumedWithin(rateLimiter.hourlyResetTime - 3600, rateLimiter.hourlyResetTime)
          <= rateLimiter.limits.perHour
    /\ ConsumedWithin(rateLimiter.dailyResetTime - 86400, rateLimiter.dailyResetTime)
          <= rateLimiter.limits.perDay
    /\ govOp.name # "none" =>
          /\ rateLimiter.hourlyCount
                = (IF HourlyReset THEN 0 ELSE govOp.before.hourlyCount)
                  + (IF Consumed THEN 1 ELSE 0)
          /\ rateLimiter.dailyCount
                = (IF DailyReset THEN 0 ELSE govOp.before.dailyCount)
                  + (IF Consumed THEN 1 ELSE 0)

\* An intent refused by the daily limit alone, after the hourly window has reset
C27_Witness ==
    /\ govOp.name = "queueIntent"
    /\ ~govOp.result
    /\ rateLimiter.dailyCount = rateLimiter.limits.perDay
    /\ rateLimiter.hourlyCount < rateLimiter.limits.perHour
    /\ \A e \in recentTopics : e.key # NormalizeTopic(govOp.topic)

\* ------------------------------------------------------------------------
\* Claims about deduplication
\* ------------------------------------------------------------------------
\* The recorded key the topic of the last check is similar to
CheckedLike == (CHOOSE c \in CheckedTopics : c.text = govOp.topic).like

\* The recordings of that key no more than 6 hours before the check
RecordedInWindow ==
    {i \in 1..Len(recordedAt) :
        recordedAt[i].key = CheckedLike /\ govOp.time - recordedAt[i].time <= 6 * 3600}

\* C28: a check of a topic returns true exactly when a topic more than 0.8
\* similar to it was recorded within the 6 hours before the check, so it turns
\* false once the window has run out unless the topic was recorded again; the
\* check removes the entries older than the window and keeps the others.
C28_Deduplication ==
    (govOp.name = "isDuplicate" /\ govOp.topic # NoTopic) =>
        /\ govOp.result <=> RecordedInWindow # {}
        /\ recentTopics
              = {e \in govOp.topicsBefore : govOp.time - e.timestamp <= 6 * 3600}

\* A check of a similar topic after the window has run out: false, and the
\* expired entry is gone
C28_Witness ==
    /\ govOp.name = "isDuplicate"
    /\ CheckedLike # NoTopic
    /\ Len(govOp.topic) > Len(CheckedLike)
    /\ ~govOp.result
    /\ \E e \in govOp.topicsBefore : e.key = CheckedLike
    /\ recentTopics = {}

\* ------------------------------------------------------------------------
\* Claims about quiet hours
\* ------------------------------------------------------------------------
\* The window of the last call's configuration, and the minute of its call
QuietWindow == CHOOSE c \in QuietConfigs : c.config = quietCall.config

QuietMinute == quietCall.hours * 60 + quietCall.minutes

\* C29: isQuietHours is true exactly when the current minute lies in the
\* half-open window from start to end, which spans midnight when start is
\* after end; without quietHours in the configuration it is false.
C29_QuietHours ==
    quietCall.called =>
        (quietCall.value <=>
            /\ quietCall.config.present
            /\ IF QuietWindow.startMinutes <= QuietWindow.endMinutes
               THEN QuietWindow.startMinutes <= QuietMinute
                    /\ QuietMinute < QuietWindow.endMinutes
               ELSE QuietMinute >= QuietWindow.startMinutes
                    \/ QuietMinute < QuietWindow.endMinutes)

\* A call after midnight inside a window that spans midnight
C29_Witness ==
    /\ quietCall.called
    /\ quietCall.value
    /\ QuietWindow.startMinutes > QuietWindow.endMinutes
    /\ QuietMinute < QuietWindow.endMinutes

\* ------------------------------------------------------------------------
\* Claims about notification batching
\* ------------------------------------------------------------------------
\* The notifications of the batches, in delivery order
RECURSIVE Flatten(_)
Flatten(batches) ==
    IF batches = <<>> THEN <<>>
    ELSE Flatten(SubSeq(batches, 1, Len(batches) - 1)) \o batches[Len(batches)].batch

\* Every notification queued is in exactly one batch or still pending, in queue
\* order; a batch holds all that was queued before it and not delivered, and
\* comes no sooner than 30 seconds after the last notification was queued
DebounceSafe ==
    /\ Flatten(delivered) \o pendingNotifications = queuedLog
    /\ pendingNotifications # <<>> => batchTimer.set
    /\ \A k \in 1..Len(delivered) :
          /\ delivered[k].batch # <<>>
          /\ Flatten(SubSeq(delivered, 1, k)) = SubSeq(queuedLog, 1, delivered[k].upTo)
          /\ delivered[k].at >= queuedLog[delivered[k].upTo].queuedAt + 30

\* C30: every notification queued is delivered exactly once, in one batch with
\* all those queued since the flush before and in queue order; a batch comes
\* only when 30 seconds have passed since the last queueNotification; and once
\* no more arrive, what is pending is delivered.
C30_Debounce ==
    /\ []DebounceSafe
    /\ \A n \in 0..(MaxNotifications + 1) :
          (Len(queuedLog) = n /\ pendingNotifications # <<>>)
              ~> (Len(queuedLog) > n \/ Flatten(delivered) = queuedLog)

\* Two batches delivered, the first with two notifications queued at different
\* times
C30_Witness ==
    /\ Len(delivered) = 2
    /\ Len(delivered[1].batch) = 2
    /\ delivered[1].batch[1].queuedAt < delivered[1].batch[2].queuedAt
    /\ pendingNotifications = <<>>

\* ------------------------------------------------------------------------
\* Claims about candidates
\* ------------------------------------------------------------------------
\* The pairs of descriptions more than 0.7 similar, written down by hand: a text
\* and itself, and LessonA with LessonC (8 of 9 words)
PairsAbove ==
    {<<LessonA, LessonA>>, <<LessonB, LessonB>>, <<LessonC, LessonC>>,
     <<LessonA, LessonC>>, <<LessonC, LessonA>>}

\* The pairs at least 0.7 similar: LessonA with LessonB (7 of 10 words) as well
PairsAtLeast == PairsAbove \cup {<<LessonA, LessonB>>, <<LessonB, LessonA>>}

\* recurrence || 1
SightingsOf(c) == IF c.recurrence = 0 THEN 1 ELSE c.recurrence

\* What addCandidate did to the file, when `pairs` are the descriptions that
\* count as similar: with no candidate of the type and a similar description it
\* appended the sighting as a 'candidate'; with one, it appended nothing, counted
\* one more recurrence on the first such candidate, and moved it to the vectors
\* as 'validated' exactly when the count reached 3
SightingHandled(pairs) ==
    LET before == ReadFileRaw(storeOp.before)
        after == storeOp.returned
        sighted == storeOp.arg
        same == {i \in 1..Len(before.candidates) :
                    /\ before.candidates[i].type = sighted.type
                    /\ <<before.candidates[i].description, sighted.description>> \in pairs}
        at == CHOOSE i \in same : \A j \in same : i <= j
    IN  /\ gvFile.content = after
        /\ IF same = {}
           THEN /\ after.vectors = before.vectors
                /\ Len(after.candidates) = Len(before.candidates) + 1
                /\ SubSeq(after.candidates, 1, Len(before.candidates)) = before.candidates
                /\ after.candidates[Len(after.candidates)].id = sighted.id
                /\ after.candidates[Len(after.candidates)].validation_status = "candidate"
           ELSE IF SightingsOf(before.candidates[at]) + 1 >= 3
           THEN /\ storeOp.promoted
                /\ Len(after.vectors) = Len(before.vectors) + 1
                /\ SubSeq(after.vectors, 1, Len(before.vectors)) = before.vectors
                /\ after.vectors[Len(after.vectors)].id = before.candidates[at].id
                /\ after.vectors[Len(after.vectors)].validation_status = "validated"
                /\ after.vectors[Len(after.vectors)].recurrence = 3
                /\ Len(after.candidates) = Len(before.candidates) - 1
                /\ \A i \in 1..Len(after.candidates) :
                      after.candidates[i].id # before.candidates[at].id
           ELSE /\ ~storeOp.promoted
                /\ after.vectors = before.vectors
                /\ Len(after.candidates) = Len(before.candidates)
                /\ after.candidates[at].recurrence = SightingsOf(before.candidates[at]) + 1
                /\ after.candidates[at].validation_status = "candidate"
                /\ \A i \in 1..Len(after.candidates) :
                      i # at => after.candidates[i] = before.candidates[i]

\* C31 (as stated): a sighting is a duplicate of a candidate of its type whose
\* description is at least 0.7 similar; then nothing is appended, the recurrence
\* of that candidate grows by one and the third sighting moves it to the
\* vectors as 'validated'; otherwise one 'candidate' entry is appended.
C31_DuplicateAtLeast ==
    storeOp.name = "addCandidate" => SightingHandled(PairsAtLeast)

\* C31 (amended): the same, a duplicate being a candidate of the type whose
\* description is more than 0.7 similar.
C31_DuplicateAbove ==
    storeOp.name = "addCandidate" => SightingHandled(PairsAbove)

\* The third sighting of a lesson, the second in other words than the first
C31_Witness ==
    /\ storeOp.name = "addCandidate"
    /\ storeOp.promoted
    /\ storeOp.before.content.vectors = <<>>
    /\ Len(gvFile.content.vectors) = 1
    /\ gvFile.content.vectors[1].recurrence = 3
    /\ gvFile.content.vectors[1].description # storeOp.arg.description

\* ------------------------------------------------------------------------
\* Claims about the lifecycle run
\* ------------------------------------------------------------------------
\* The age of an entry at the last lifecycle run; an entry without a detection
\* date counts as detected at time 0
AgeAtRun(entry) == storeOp.at - (IF entry.detected = NULL THEN 0 ELSE entry.detected)

\* The positions of `before` whose entries are in `after`
KeptOf(before, after) ==
    {i \in 1..Len(before) : \E k \in 1..Len(after) : after[k] = before[i]}

\* What the last lifecycle run left: the candidates younger than 30 days (with
\* `keepsThirtieth`, those exactly 30 days old as well), in their order; at
\* most maxVectors vectors, the evicted ones no younger than any kept one, and
\* the list as it was when it was not over the limit; and a file that a second
\* run at the same time leaves alone
LifecycleHandled(keepsThirtieth) ==
    LET before == ReadFileRaw(storeOp.before)
        after == ReadFileRaw(gvFile)
        young(c) == AgeAtRun(c) < 30 * 86400 \/ (keepsThirtieth /\ AgeAtRun(c) = 30 * 86400)
        kept == KeptOf(before.vectors, after.vectors)
    IN  /\ after.candidates = SelectSeq(before.candidates, young)
        /\ Len(after.vectors) = Min(Len(before.vectors), MaxVectors)
        /\ Cardinality(kept) = Len(after.vectors)
        /\ \A i \in kept, j \in (1..Len(before.vectors)) \ kept :
              AgeAtRun(before.vectors[j]) >= AgeAtRun(before.vectors[i])
        /\ Len(before.vectors) <= MaxVectors => after.vectors = before.vectors
        /\ RunLifecycleResult(after, storeOp.at).data = after
        /\ ~RunLifecycleResult(after, storeOp.at).written

C33_ClearedAtSessionBoundary ==
    lastHook.name = "session_boundary" =>
        /\ agentStates[lastHook.agent].toolHistory = <<>>
        /\ \A p \in Paths : agentStates[lastHook.agent].fileReadCounts[p] = 0

\* ------------------------------------------------------------------------
\* Claims about the feedback closure and the context block
\* ------------------------------------------------------------------------
\* C34: a feedback entry is written for a vector only if the context block
\* returned by the agent's preceding before_agent_start had that vector's line
\* under [GROWTH VECTORS]; a vector that was ranked and withheld gets none.
C34_FeedbackOnlyForInjected ==
    [][\A i \in (Len(feedbackTrace) + 1)..Len(feedbackTrace') :
          \E k \in 1..Len(turn[feedbackTrace'[i].agent].block) :
              turn[feedbackTrace'[i].agent].block[k] = feedbackTrace'[i].id]_vars

\* ------------------------------------------------------------------------
\* Claims about tensions and growth vectors
\* ------------------------------------------------------------------------
\* The turn input the last processTurn was given
LastTurnInput == CHOOSE t \in TurnInputs : t.response = identityOp.response

\* The list the resolution step of the last processTurn worked on
TensionsAtResolution == identityOp.before \o identityOp.detected

\* The positions the last processTurn changed from 'active' to 'resolved'
ResolvedByTurn ==
    {i \in 1..Len(TensionsAtResolution) :
        /\ TensionsAtResolution[i].status = "active"
        /\ identityOp.resolved[i].status = "resolved"}

\* The positions of active tensions at most 30 minutes old at the last turn
YoungActive ==
    {i \in 1..Len(TensionsAtResolution) :
        /\ TensionsAtResolution[i].status = "active"
        /\ identityOp.at - TensionsAtResolution[i].detectedAt <= 1800}

GrowthVectorsStored ==
    {i \in (identityOp.stored + 1)..Len(memoryStore) : memoryStore[i].type = "growth_vector"}

\* C39: a single processTurn makes at most one store call of type
\* 'growth_vector', whether or not it resolves an active tension.
C39_OneGrowthVectorPerTurn ==
    identityOp.name = "processTurn" => Cardinality(GrowthVectorsStored) <= 1

\* ------------------------------------------------------------------------
\* Claims about the heartbeat decision log
\* ------------------------------------------------------------------------
\* The response the last logDecision was given
LastHeartbeat == CHOOSE h \in HeartbeatResponses : h.text = heartbeatOp.response

\* The entries the last logDecision handed to the memory API
DecisionsStored == SubSeq(memoryStore, heartbeatOp.stored + 1, Len(memoryStore))

\* C36: logDecision with a memory store stores the structured decision of the
\* response when it has one; stores one GROUND decision with the reason
\* 'Nothing needs attention' when it has none and is ground-stable; stores
\* nothing when it is neither; and never raises.
C36_DecisionLogged ==
    heartbeatOp.name = "logDecision" /\ heartbeatOp.memoryApi =>
        /\ ~heartbeatOp.raised
        /\ LastHeartbeat.decision # "" =>
              /\ Len(DecisionsStored) = 1
              /\ DecisionsStored[1].type = "heartbeat_decision"
              /\ DecisionsStored[1].decision = LastHeartbeat.decision
              /\ DecisionsStored[1].reason = LastHeartbeat.reason
        /\ LastHeartbeat.decision = "" /\ LastHeartbeat.stable =>
              /\ Len(DecisionsStored) = 1
              /\ DecisionsStored[1].type = "heartbeat_decision"
              /\ DecisionsStored[1].decision = "GROUND"
              /\ DecisionsStored[1].reason =
                    <<78, 111, 116, 104, 105, 110, 103, 32, 110, 101, 101, 100, 115, 32,
                      97, 116, 116, 101, 110, 116, 105, 111, 110>>
        /\ LastHeartbeat.decision = "" /\ ~LastHeartbeat.stable => DecisionsStored = <<>>

\* ------------------------------------------------------------------------
\* Claims about the priority-queue fallback
\* ------------------------------------------------------------------------
\* The ids of the three queue lists the last ranking read, high to low
QueuedIds == rankArgs.queue.high \o rankArgs.queue.medium \o rankArgs.queue.low

\* The first position of an id in the queue lists, 0 when it is in none
QueuePosition(id) ==
    LET at == {k \in 1..Len(QueuedIds) : QueuedIds[k] = id}
    IN  IF at = {} THEN 0 ELSE CHOOSE k \in at : \A m \in at : k <= m

\* C37: on the fallback path (no user message) getRelevantVectors returns no
\* vector twice, also when the queue lists name an id more than once, and
\* the vectors named by the queue come first, in high, medium, low order,
\* before the ones added by weight.
C37_NoVectorTwice ==
    rankPath = "priority" =>
        /\ \A i, j \in 1..Len(rankScored) :
              i # j => rankScored[i].vector.id # rankScored[j].vector.id
        /\ \A i, j \in 1..Len(rankScored) :
              i < j /\ QueuePosition(rankScored[j].vector.id) > 0 =>
                  /\ QueuePosition(rankScored[i].vector.id) > 0
                  /\ QueuePosition(rankScored[i].vector.id)
                        <= QueuePosition(rankScored[j].vector.id)

\* ------------------------------------------------------------------------
\* Claims about the file re-read check
\* ------------------------------------------------------------------------
\* C38: recordAndCheck returns a 'file_reread' loop only for a call that is
\* itself a read by one of the read tools; a call of another tool carrying the
\* path of a file read often never does.
C38_RereadOnlyForReads ==
    loopOp = "call" /\ loopResult.type = "file_reread" =>
        callLog[Len(callLog)].tool \in {"read_file", "cat", "head", "tail", "Read", "read"}

\* ------------------------------------------------------------------------
\* Claims about the queued investigation intent
\* ------------------------------------------------------------------------
\* C40: no accepted intent is lost: an intent that queueIntent accepted stays
\* queued until a consumeQueuedIntent returns it, also when queueIntent is
\* called again in between; and consumeQueuedIntent records a rate-limit use
\* and a topic only when it returns an intent.
C40_AcceptedIntentKept ==
    [][/\ queuedIntent # NoIntent /\ queuedIntent' # queuedIntent =>
             /\ govOp'.name = "consumeQueuedIntent"
             /\ govOp'.result
             /\ govOp'.topic = queuedIntent.topic
       /\ govOp'.name = "consumeQueuedIntent" /\ ~govOp'.result =>
             /\ rateLimiter' = rateLimiter
             /\ recentTopics' = recentTopics]_vars

====
